---------------------------- MODULE Spec2Model ----------------------------
(***************************************************************************)
(* Model of the chart-data inference tools of backend/app/tools            *)
(* (chart_generator.py): the field classifier _analyze_field, the          *)
(* structural analysis _analyze_data_structure and the tool                *)
(* generate_chart_data with its helpers.                                   *)
(*                                                                         *)
(* Python values are tagged records, Python strings are sequences of       *)
(* one-character strings, so that parsing and formatting are computed      *)
(* character by character as the library routines do.  Floats are exact    *)
(* decimals [m, e] standing for m / 10^e.                                  *)
(***************************************************************************)
EXTENDS Integers, Sequences, FiniteSets, TLC

VARIABLES pc, op, args, ret, frame

vars == <<pc, op, args, ret, frame>>

-----------------------------------------------------------------------------
(* Characters and strings                                                  *)

DigitChars == <<"0", "1", "2", "3", "4", "5", "6", "7", "8", "9">>

LowerChars == <<"a", "b", "c", "d", "e", "f", "g", "h", "i", "j", "k", "l", "m",
                "n", "o", "p", "q", "r", "s", "t", "u", "v", "w", "x", "y", "z">>

UpperChars == <<"A", "B", "C", "D", "E", "F", "G", "H", "I", "J", "K", "L", "M",
                "N", "O", "P", "Q", "R", "S", "T", "U", "V", "W", "X", "Y", "Z">>

Range(f) == {f[i] : i \in DOMAIN f}

IsDigit(c) == c \in Range(DigitChars)

IsLower(c) == c \in Range(LowerChars)

IsUpper(c) == c \in Range(UpperChars)

IsCased(c) == IsLower(c) \/ IsUpper(c)

IndexIn(seq, c) == CHOOSE i \in DOMAIN seq : seq[i] = c

DigitVal(c) == IndexIn(DigitChars, c) - 1

ToUpper(c) == IF IsLower(c) THEN UpperChars[IndexIn(LowerChars, c)] ELSE c

ToLower(c) == IF IsUpper(c) THEN LowerChars[IndexIn(UpperChars, c)] ELSE c

Contains(s, c) == \E i \in DOMAIN s : s[i] = c

\* str.replace(old, new) for a one-character old and a string new
RECURSIVE Replace(_, _, _)
Replace(s, old, new) ==
    IF s = <<>> THEN <<>>
    ELSE (IF Head(s) = old THEN new ELSE <<Head(s)>>) \o Replace(Tail(s), old, new)

\* ''.join(c for c in s if c.isdigit() or c == '.')
RECURSIVE DigitsAndDots(_)
DigitsAndDots(s) ==
    IF s = <<>> THEN <<>>
    ELSE (IF IsDigit(Head(s)) \/ Head(s) = "." THEN <<Head(s)>> ELSE <<>>)
            \o DigitsAndDots(Tail(s))

\* s.strip() for the whitespace character of the value alphabet
RECURSIVE LStrip(_)
LStrip(s) == IF s # <<>> /\ Head(s) = " " THEN LStrip(Tail(s)) ELSE s

RECURSIVE RStrip(_)
RStrip(s) ==
    IF s # <<>> /\ s[Len(s)] = " " THEN RStrip(SubSeq(s, 1, Len(s) - 1)) ELSE s

Strip(s) == RStrip(LStrip(s))

\* seq[:n]
Prefix(seq, n) == SubSeq(seq, 1, IF Len(seq) < n THEN Len(seq) ELSE n)

RECURSIVE Pow10(_)
Pow10(e) == IF e = 0 THEN 1 ELSE 10 * Pow10(e - 1)

\* value of a non-empty string of digits
RECURSIVE DigitsVal(_)
DigitsVal(s) ==
    IF s = <<>> THEN 0
    ELSE 10 * DigitsVal(SubSeq(s, 1, Len(s) - 1)) + DigitVal(s[Len(s)])

AllDigits(s) == \A i \in DOMAIN s : IsDigit(s[i])

\* str(n) of an int
RECURSIVE NatToStr(_)
NatToStr(n) ==
    IF n < 10 THEN <<DigitChars[n + 1]>>
    ELSE NatToStr(n \div 10) \o <<DigitChars[(n % 10) + 1]>>

IntToStr(n) == IF n < 0 THEN <<"-">> \o NatToStr(-n) ELSE NatToStr(n)

-----------------------------------------------------------------------------
(* Python values                                                           *)

PyInt(n) == [t |-> "int", n |-> n]

PyBool(b) == [t |-> "bool", b |-> b]

PyStr(s) == [t |-> "str", s |-> s]

PyNone == [t |-> "none"]

PyList(items) == [t |-> "list", items |-> items]

\* a dict keeps insertion order: a sequence of [k, v] with distinct keys
PyDict(kv) == [t |-> "dict", kv |-> kv]

\* a float holds an exact decimal [m, e], m / 10^e with no trailing zero
PyFloat(d) == [t |-> "float", d |-> d]

\* the test with bool, a subclass of int, left out
IsNum_NotBool(v) == v.t \in {"int", "float"}

IsNum(v) == v.t \in {"int", "bool", "float"}      \* isinstance(v, (int, float))

IsStr(v) == v.t = "str"

IsDict(v) == v.t = "dict"

IsList(v) == v.t = "list"

\* truth value of a Python object ("not data", "if values")
Truthy(v) ==
    CASE v.t = "none" -> FALSE
      [] v.t = "bool" -> v.b
      [] v.t = "int" -> v.n # 0
      [] v.t = "float" -> v.d.m # 0
      [] v.t = "str" -> v.s # <<>>
      [] v.t = "list" -> v.items # <<>>
      [] v.t = "dict" -> v.kv # <<>>

\* ", ".join(parts)
RECURSIVE Join(_, _)
Join(parts, sep) ==
    IF parts = <<>> THEN <<>>
    ELSE IF Len(parts) = 1 THEN parts[1]
    ELSE parts[1] \o sep \o Join(Tail(parts), sep)

\* the digits of n, zero-filled on the left to width w
RECURSIVE ZeroFill(_, _)
ZeroFill(s, w) == IF Len(s) >= w THEN s ELSE ZeroFill(<<"0">> \o s, w)

Abs(n) == IF n < 0 THEN -n ELSE n

\* repr of a float in positional notation: 1.0, 1.5, -0.25
FloatRepr(d) ==
    (IF d.m < 0 THEN <<"-">> ELSE <<>>)
        \o NatToStr(Abs(d.m) \div Pow10(d.e)) \o <<".">>
        \o (IF d.e = 0 THEN <<"0">> ELSE ZeroFill(NatToStr(Abs(d.m) % Pow10(d.e)), d.e))

\* repr(v); str(v) differs from it only for a string
RECURSIVE Repr(_)
Repr(v) ==
    CASE v.t = "none" -> <<"N", "o", "n", "e">>
      [] v.t = "bool" -> IF v.b THEN <<"T", "r", "u", "e">>
                         ELSE <<"F", "a", "l", "s", "e">>
      [] v.t = "int" -> IntToStr(v.n)
      [] v.t = "float" -> FloatRepr(v.d)
      [] v.t = "str" -> <<"'">> \o v.s \o <<"'">>
      [] v.t = "list" ->
            <<"[">> \o Join([i \in DOMAIN v.items |-> Repr(v.items[i])], <<",", " ">>)
                    \o <<"]">>
      [] v.t = "dict" ->
            <<"{">> \o Join([i \in DOMAIN v.kv |->
                               <<"'">> \o v.kv[i].k \o <<"'", ":", " ">>
                                       \o Repr(v.kv[i].v)], <<",", " ">>)
                    \o <<"}">>

Str(v) == IF v.t = "str" THEN v.s ELSE Repr(v)

-----------------------------------------------------------------------------
(* Floats as exact decimals, and float()                                   *)

RECURSIVE DecNorm(_)
DecNorm(d) ==
    IF d.e > 0 /\ d.m % 10 = 0 THEN DecNorm([m |-> d.m \div 10, e |-> d.e - 1])
    ELSE d

Dec(m, e) == DecNorm([m |-> m, e |-> e])

DecLess(a, b) == a.m * Pow10(b.e) < b.m * Pow10(a.e)

DecAdd(a, b) ==
    LET e == IF a.e > b.e THEN a.e ELSE b.e
    IN  Dec(a.m * Pow10(e - a.e) + b.m * Pow10(e - b.e), e)

ValueError == [ok |-> FALSE]

Parsed(d) == [ok |-> TRUE, v |-> d]

\* digits [ "." digits ] with at least one digit; no sign
FloatBody(s) ==
    LET dot   == IF Contains(s, ".") THEN IndexIn(s, ".") ELSE Len(s) + 1
        ip    == SubSeq(s, 1, dot - 1)
        fp    == SubSeq(s, dot + 1, Len(s))
    IN  IF AllDigits(ip) /\ AllDigits(fp) /\ Len(ip) + Len(fp) > 0
        THEN Parsed(Dec(DigitsVal(ip) * Pow10(Len(fp)) + DigitsVal(fp), Len(fp)))
        ELSE ValueError

\* float(s) of a string: surrounding whitespace stripped, optional sign, decimal
\* digits with an optional point (the values of the model spell no exponent,
\* infinity, nan or digit-group underscore)
FloatOfStr(s) ==
    LET t    == Strip(s)
        neg  == t # <<>> /\ Head(t) = "-"
        sgn  == t # <<>> /\ Head(t) \in {"-", "+"}
        body == FloatBody(IF sgn THEN Tail(t) ELSE t)
    IN  IF ~body.ok THEN ValueError
        ELSE IF neg THEN Parsed(Dec(-body.v.m, body.v.e)) ELSE body

\* float(v) of a native number: True is 1.0, False is 0.0
FloatOfNum(v) ==
    CASE v.t = "bool" -> Dec(IF v.b THEN 1 ELSE 0, 0)
      [] v.t = "int" -> Dec(v.n, 0)
      [] v.t = "float" -> v.d

-----------------------------------------------------------------------------
(* datetime.strptime for the formats of date_patterns                      *)

\* the formats of date_patterns, one token per directive or literal character
date_patterns ==
    << <<"%Y", "-", "%m", "-", "%d">>,
       <<"%Y", "-", "%m">>,
       <<"%m", "/", "%d", "/", "%Y">>,
       <<"%d", "/", "%m", "/", "%Y">>,
       <<"%Y", "-", "%m", "-", "%d", "T", "%H", ":", "%M", ":", "%S">>,
       <<"%Y", "-", "%m", "-", "%d", " ", "%H", ":", "%M", ":", "%S">> >>

IsDirective(tok) == tok \in {"%Y", "%m", "%d", "%H", "%M", "%S"}

In(c, lo, hi) == IsDigit(c) /\ DigitVal(c) >= lo /\ DigitVal(c) <= hi

\* two characters of s match  [a1-a2][b1-b2]
Two(s, a1, a2, b1, b2) == Len(s) >= 2 /\ In(s[1], a1, a2) /\ In(s[2], b1, b2)

One(s, lo, hi) == Len(s) >= 1 /\ In(s[1], lo, hi)

\* how many characters of s the directive's regular expression takes (its
\* alternatives tried in order), 0 when none matches
DirLen(tok, s) ==
    CASE tok = "%Y" -> IF Len(s) >= 4 /\ AllDigits(SubSeq(s, 1, 4)) THEN 4 ELSE 0
      [] tok = "%m" -> IF Two(s, 1, 1, 0, 2) \/ Two(s, 0, 0, 1, 9) THEN 2
                       ELSE IF One(s, 1, 9) THEN 1 ELSE 0
      [] tok = "%d" -> IF Two(s, 3, 3, 0, 1) \/ Two(s, 1, 2, 0, 9) \/ Two(s, 0, 0, 1, 9)
                       THEN 2
                       ELSE IF One(s, 1, 9) THEN 1
                       ELSE IF Len(s) >= 2 /\ s[1] = " " /\ In(s[2], 1, 9) THEN 2
                       ELSE 0
      [] tok = "%H" -> IF Two(s, 2, 2, 0, 3) \/ Two(s, 0, 1, 0, 9) THEN 2
                       ELSE IF One(s, 0, 9) THEN 1 ELSE 0
      [] tok = "%M" -> IF Two(s, 0, 5, 0, 9) THEN 2
                       ELSE IF One(s, 0, 9) THEN 1 ELSE 0
      [] tok = "%S" -> IF Two(s, 6, 6, 0, 1) \/ Two(s, 0, 5, 0, 9) THEN 2
                       ELSE IF One(s, 0, 9) THEN 1 ELSE 0

\* int() of the text a directive matched (%d may match " 5")
DirVal(s) == DigitsVal(LStrip(s))

NoMatch == [ok |-> FALSE]

\* the regular expression compiled from the format, matched from the start of
\* the text (ignoring case, whitespace of the format matching any run of
\* whitespace); the whole text must be consumed
RECURSIVE StrpMatch(_, _, _)
StrpMatch(s, fmt, f) ==
    IF fmt = <<>> THEN (IF s = <<>> THEN [ok |-> TRUE, f |-> f] ELSE NoMatch)
    ELSE LET tok == Head(fmt) IN
         IF IsDirective(tok)
         THEN LET n == DirLen(tok, s) IN
              IF n = 0 THEN NoMatch
              ELSE StrpMatch(SubSeq(s, n + 1, Len(s)), Tail(fmt),
                             [f EXCEPT ![tok] = DirVal(SubSeq(s, 1, n))])
         ELSE IF tok = " "
         THEN (IF s # <<>> /\ Head(s) = " " THEN StrpMatch(LStrip(s), Tail(fmt), f)
               ELSE NoMatch)
         ELSE IF s # <<>> /\ ToLower(Head(s)) = ToLower(tok)
              THEN StrpMatch(Tail(s), Tail(fmt), f)
              ELSE NoMatch

IsLeap(y) == y % 4 = 0 /\ (y % 100 # 0 \/ y % 400 = 0)

DaysInMonth(y, m) ==
    IF m = 2 THEN (IF IsLeap(y) THEN 29 ELSE 28)
    ELSE IF m \in {4, 6, 9, 11} THEN 30 ELSE 31

\* fields not named by the format keep strptime's defaults
StrpDefaults ==
    [tok \in {"%Y", "%m", "%d", "%H", "%M", "%S"} |->
        IF tok = "%Y" THEN 1900 ELSE IF tok \in {"%m", "%d"} THEN 1 ELSE 0]

\* TRUE iff datetime.strptime(s, fmt) returns, FALSE iff it raises ValueError
Strptime(s, fmt) ==
    LET r == StrpMatch(s, fmt, StrpDefaults)
    IN  /\ r.ok
        /\ r.f["%Y"] >= 1
        /\ r.f["%d"] <= DaysInMonth(r.f["%Y"], r.f["%m"])
        /\ r.f["%S"] <= 59

-----------------------------------------------------------------------------
(* _analyze_field                                                          *)

CurrencySymbols == {"$", "€", "£", "¥"}

Skipped == [ok |-> FALSE, pct |-> FALSE, cur |-> FALSE]

\* the loop's body with is_percentage set before the remainder is parsed
NumericParse_FlagFirst(val) ==
    IF IsNum(val)
    THEN [ok |-> TRUE, v |-> FloatOfNum(val), pct |-> FALSE, cur |-> FALSE]
    ELSE IF IsStr(val)
    THEN IF Contains(val.s, "%")
         THEN LET r == FloatOfStr(Replace(val.s, "%", <<>>)) IN
              IF r.ok THEN [ok |-> TRUE, v |-> r.v, pct |-> TRUE, cur |-> FALSE]
              ELSE [ok |-> FALSE, pct |-> TRUE, cur |-> FALSE]
         ELSE IF \E sym \in CurrencySymbols : Contains(val.s, sym)
         THEN LET clean_val == DigitsAndDots(val.s)
                  r == FloatOfStr(clean_val)
              IN  IF clean_val # <<>> /\ r.ok
                  THEN [ok |-> TRUE, v |-> r.v, pct |-> FALSE, cur |-> TRUE]
                  ELSE Skipped
         ELSE LET r == FloatOfStr(val.s) IN
              IF r.ok THEN [ok |-> TRUE, v |-> r.v, pct |-> FALSE, cur |-> FALSE]
              ELSE Skipped
    ELSE Skipped

\* one pass of the numeric loop's body: the float appended to numeric_values
\* (ok), and the flag the pass sets; a ValueError or TypeError inside the try
\* block leaves both untouched
NumericParse(val) ==
    IF IsNum(val)
    THEN [ok |-> TRUE, v |-> FloatOfNum(val), pct |-> FALSE, cur |-> FALSE]
    ELSE IF IsStr(val)
    THEN IF Contains(val.s, "%")
         THEN LET r == FloatOfStr(Replace(val.s, "%", <<>>)) IN
              IF r.ok THEN [ok |-> TRUE, v |-> r.v, pct |-> TRUE, cur |-> FALSE]
              ELSE Skipped
         ELSE IF \E sym \in CurrencySymbols : Contains(val.s, sym)
         THEN LET clean_val == DigitsAndDots(val.s)
                  r == FloatOfStr(clean_val)
              IN  IF clean_val # <<>> /\ r.ok
                  THEN [ok |-> TRUE, v |-> r.v, pct |-> FALSE, cur |-> TRUE]
                  ELSE Skipped
         ELSE LET r == FloatOfStr(val.s) IN
              IF r.ok THEN [ok |-> TRUE, v |-> r.v, pct |-> FALSE, cur |-> FALSE]
              ELSE Skipped
    ELSE Skipped

NumericOk(val) == NumericParse(val).ok

\* numeric_values with 0.0 appended for a value that does not parse
NumericValues_ZeroForSkipped(values) ==
    [i \in DOMAIN values |->
        IF NumericOk(values[i]) THEN NumericParse(values[i]).v ELSE Dec(0, 0)]

\* numeric_values after the loop
NumericValues(values) ==
    LET kept == SelectSeq(values, NumericOk)
    IN  [i \in DOMAIN kept |-> NumericParse(kept[i]).v]

DecMin(ds) == CHOOSE d \in Range(ds) : \A x \in Range(ds) : ~DecLess(x, d)

DecMax(ds) == CHOOSE d \in Range(ds) : \A x \in Range(ds) : ~DecLess(d, x)

\* sum(ds), added up by halves
RECURSIVE DecSum(_)
DecSum(ds) ==
    IF ds = <<>> THEN Dec(0, 0)
    ELSE IF Len(ds) = 1 THEN ds[1]
    ELSE LET h == Len(ds) \div 2
         IN  DecAdd(DecSum(SubSeq(ds, 1, h)), DecSum(SubSeq(ds, h + 1, Len(ds))))

RECURSIVE Gcd(_, _)
Gcd(a, b) == IF b = 0 THEN a ELSE Gcd(b, a % b)

\* the quotient p / q as a reduced fraction
Rat(p, q) == LET g == Gcd(Abs(p), q) IN [p |-> p \div g, q |-> q \div g]

\* sum(numeric_values) / len(numeric_values)
Mean(ds) == LET s == DecSum(ds) IN Rat(s.m, Pow10(s.e) * Len(ds))

\* the numeric threshold with >= written for >
NumericThreshold_AtLeast(k, n) == 10 * k >= 8 * n

\* len(numeric_values) > len(values) * 0.8
NumericThreshold(k, n) == 10 * k > 8 * n

\* len(parsed_dates) > len(values[:10]) * 0.8
DateThreshold(k, n) == 10 * k > 8 * n

\* the categorical threshold with <= written for <
CategoricalThreshold_AtMost(u, n) == 2 * u <= n

\* unique_count < len(values) * 0.5
CategoricalThreshold(u, n) == 2 * u < n

\* one pass of the loop over date_patterns: "raise" when strptime raises on a
\* string of the prefix (the except clause moves on to the next pattern),
\* "match" when the threshold is cleared, "below" otherwise
PatternOutcome(values, pattern) ==
    LET pre    == Prefix(values, 10)
        strs   == {i \in DOMAIN pre : IsStr(pre[i])}
    IN  IF \E i \in strs : ~Strptime(pre[i].s, pattern) THEN "raise"
        ELSE IF DateThreshold(Cardinality(strs), Len(pre)) THEN "match"
        ELSE "below"

\* index of the pattern the loop breaks on, 0 when it runs to its end
MatchedPattern(values) ==
    LET hits == {p \in DOMAIN date_patterns :
                    PatternOutcome(values, date_patterns[p]) = "match"}
    IN  IF hits = {} THEN 0 ELSE CHOOSE p \in hits : \A q \in hits : p <= q

\* "date" if "T" not in pattern and ":" not in pattern else "datetime"
PatternType(pattern) ==
    IF ~Contains(pattern, "T") /\ ~Contains(pattern, ":") THEN "date" ELSE "datetime"

UniqueCount(values) == Cardinality({Str(values[i]) : i \in DOMAIN values})

\* the type after the numeric and the date step, before the fallback
TypeAfterDate(values, numeric_values) ==
    LET p == MatchedPattern(values) IN
    IF p # 0 THEN PatternType(date_patterns[p])
    ELSE IF NumericThreshold(Len(numeric_values), Len(values)) THEN "numeric"
    ELSE "unknown"

\* an absent key of the result is the empty tuple
Absent == <<>>

\* the result from the local variables on: t is the type after the numeric and
\* the date step, p the index of the pattern matched
FieldAnalysis(values, numeric_values, is_numeric, p, unique_count, t) ==
    [type          |-> IF t # "unknown" THEN t
                       ELSE IF CategoricalThreshold(unique_count, Len(values))
                            THEN "categorical" ELSE "text",
     sample_values |-> Prefix(values, 5),
     unique_count  |-> unique_count,
     is_percentage |-> \E i \in DOMAIN values : NumericParse(values[i]).pct,
     is_currency   |-> \E i \in DOMAIN values : NumericParse(values[i]).cur,
     date_formats  |-> IF p # 0 THEN <<p>> ELSE <<>>,
     range         |-> IF is_numeric
                       THEN <<DecMin(numeric_values), DecMax(numeric_values)>>
                       ELSE Absent,
     average       |-> IF is_numeric THEN <<Mean(numeric_values)>> ELSE Absent]

\* the locals after the numeric step
AfterNumericStep(values, numeric_values) ==
    FieldAnalysis(values, numeric_values,
                  NumericThreshold(Len(numeric_values), Len(values)),
                  MatchedPattern(values), UniqueCount(values),
                  TypeAfterDate(values, numeric_values))

_analyze_field(field_name, values) == AfterNumericStep(values, NumericValues(values))

-----------------------------------------------------------------------------
(* json.loads                                                              *)

\* index of the first character at or after i that is not whitespace
SkipWs(s, i) ==
    LET rest == {j \in i..Len(s) : s[j] # " "}
    IN  IF rest = {} THEN Len(s) + 1 ELSE CHOOSE j \in rest : \A k \in rest : j <= k

At(s, i) == IF i >= 1 /\ i <= Len(s) THEN s[i] ELSE "<end>"

\* d[k] = v on the pairs of a dict: a key already present keeps its place
DictSet(kv, k, v) ==
    IF \E i \in DOMAIN kv : kv[i].k = k
    THEN [i \in DOMAIN kv |-> IF kv[i].k = k THEN [k |-> k, v |-> v] ELSE kv[i]]
    ELSE Append(kv, [k |-> k, v |-> v])

JsonFail == [ok |-> FALSE]

JsonOk(v, i) == [ok |-> TRUE, v |-> v, i |-> i]

\* s[i..] starts with the word w
StartsWith(s, i, w) == i + Len(w) - 1 <= Len(s) /\ SubSeq(s, i, i + Len(w) - 1) = w

\* end of the longest run of digits starting at i (i - 1 when there is none)
DigitsEnd(s, i) ==
    LET stop == {j \in i..Len(s) : ~IsDigit(s[j])}
    IN  IF stop = {} THEN Len(s) ELSE (CHOOSE j \in stop : \A k \in stop : j <= k) - 1

\* a string: the characters up to the closing quote (the texts of the model
\* hold no escape sequence)
JsonString(s, i) ==
    LET close == {j \in (i + 1)..Len(s) : s[j] = "\""}
        j     == CHOOSE j \in close : \A k \in close : j <= k
    IN  IF close = {} THEN JsonFail ELSE JsonOk(PyStr(SubSeq(s, i + 1, j - 1)), j + 1)

\* a number: -? (0 | [1-9][0-9]*) (. [0-9]+)?   (the texts of the model spell
\* no exponent)
JsonNumber(s, i) ==
    LET neg  == At(s, i) = "-"
        b    == IF neg THEN i + 1 ELSE i
        ie   == IF At(s, b) = "0" THEN b ELSE DigitsEnd(s, b)
        frac == At(s, ie + 1) = "."
        fe   == IF frac THEN DigitsEnd(s, ie + 2) ELSE ie
        ival == DigitsVal(SubSeq(s, b, ie))
        sgn  == IF neg THEN -1 ELSE 1
    IN  IF ie < b THEN JsonFail
        ELSE IF ~frac THEN JsonOk(PyInt(sgn * ival), ie + 1)
        ELSE IF fe < ie + 2 THEN JsonFail
        ELSE JsonOk(PyFloat(Dec(sgn * (ival * Pow10(fe - ie - 1)
                                         + DigitsVal(SubSeq(s, ie + 2, fe))),
                                fe - ie - 1)),
                    fe + 1)

RECURSIVE JsonValue(_, _)
RECURSIVE JsonElements(_, _, _)
RECURSIVE JsonMembers(_, _, _)

\* the value starting at index i of the text
JsonValue(s, i) ==
    LET c == At(s, i) IN
    CASE c = "[" ->
            LET j == SkipWs(s, i + 1) IN
            IF At(s, j) = "]" THEN JsonOk(PyList(<<>>), j + 1)
            ELSE JsonElements(s, j, <<>>)
      [] c = "{" ->
            LET j == SkipWs(s, i + 1) IN
            IF At(s, j) = "}" THEN JsonOk(PyDict(<<>>), j + 1)
            ELSE JsonMembers(s, j, <<>>)
      [] c = "\"" -> JsonString(s, i)
      [] StartsWith(s, i, <<"t", "r", "u", "e">>) -> JsonOk(PyBool(TRUE), i + 4)
      [] StartsWith(s, i, <<"f", "a", "l", "s", "e">>) -> JsonOk(PyBool(FALSE), i + 5)
      [] StartsWith(s, i, <<"n", "u", "l", "l">>) -> JsonOk(PyNone, i + 4)
      [] c = "-" \/ IsDigit(c) -> JsonNumber(s, i)
      [] OTHER -> JsonFail

\* the elements of an array from index i on, acc those already read
JsonElements(s, i, acc) ==
    LET r == JsonValue(s, i) IN
    IF ~r.ok THEN JsonFail
    ELSE LET j == SkipWs(s, r.i) IN
         IF At(s, j) = "," THEN JsonElements(s, SkipWs(s, j + 1), Append(acc, r.v))
         ELSE IF At(s, j) = "]" THEN JsonOk(PyList(Append(acc, r.v)), j + 1)
         ELSE JsonFail

\* the members of an object from index i on, acc those already read
JsonMembers(s, i, acc) ==
    IF At(s, i) # "\"" THEN JsonFail
    ELSE LET key == JsonString(s, i) IN
         IF ~key.ok THEN JsonFail
         ELSE LET c == SkipWs(s, key.i) IN
              IF At(s, c) # ":" THEN JsonFail
              ELSE LET r == JsonValue(s, SkipWs(s, c + 1)) IN
                   IF ~r.ok THEN JsonFail
                   ELSE LET j   == SkipWs(s, r.i)
                            kv  == DictSet(acc, key.v.s, r.v)
                        IN  IF At(s, j) = "," THEN JsonMembers(s, SkipWs(s, j + 1), kv)
                            ELSE IF At(s, j) = "}" THEN JsonOk(PyDict(kv), j + 1)
                            ELSE JsonFail

\* json.loads(s): [ok |-> TRUE, v |-> value], or ok FALSE for JSONDecodeError
json_loads(s) ==
    LET r == JsonValue(s, SkipWs(s, 1)) IN
    IF r.ok /\ SkipWs(s, r.i) = Len(s) + 1 THEN [ok |-> TRUE, v |-> r.v] ELSE JsonFail

-----------------------------------------------------------------------------
(* String literals of chart_generator.py                                   *)

S_auto == <<"a", "u", "t", "o">>

S_line == <<"l", "i", "n", "e">>

S_bar == <<"b", "a", "r">>

S_pie == <<"p", "i", "e">>

S_multi_bar == <<"m", "u", "l", "t", "i", "-", "b", "a", "r">>

S_scatter == <<"s", "c", "a", "t", "t", "e", "r">>

S_multi_line == <<"m", "u", "l", "t", "i", "-", "l", "i", "n", "e">>

S_OverTime == <<" ", "O", "v", "e", "r", " ", "T", "i", "m", "e">>

S_by == <<" ", "b", "y", " ">>

S_Distribution == <<" ", "D", "i", "s", "t", "r", "i", "b", "u", "t", "i", "o", "n">>

S_Chart == <<" ", "C", "h", "a", "r", "t">>

S_ChartShowing ==
    <<"C", "h", "a", "r", "t", " ", "s", "h", "o", "w", "i", "n", "g", " ">>

S_dataPoints == <<" ", "d", "a", "t", "a", " ", "p", "o", "i", "n", "t", "s">>

S_withTimeSeries ==
    <<"w", "i", "t", "h", " ", "t", "i", "m", "e", " ", "s", "e", "r", "i", "e", "s",
      " ", "a", "n", "a", "l", "y", "s", "i", "s">>

S_withCategorical ==
    <<"w", "i", "t", "h", " ", "c", "a", "t", "e", "g", "o", "r", "i", "c", "a", "l",
      " ", "b", "r", "e", "a", "k", "d", "o", "w", "n">>

S_withMultiple ==
    <<"w", "i", "t", "h", " ", "m", "u", "l", "t", "i", "p", "l", "e", " ", "m", "e",
      "t", "r", "i", "c", "s">>

S_XAxis == <<"X", "-", "A", "x", "i", "s">>

S_YAxis == <<"Y", "-", "A", "x", "i", "s">>

S_Categories == <<"C", "a", "t", "e", "g", "o", "r", "i", "e", "s">>

S_Values == <<"V", "a", "l", "u", "e", "s">>

-----------------------------------------------------------------------------
(* _analyze_data_structure                                                 *)

\* list(d.keys())
Keys(d) == [i \in DOMAIN d.kv |-> d.kv[i].k]

\* d.get(k): the value, None when the key is absent
DictGet(d, k) ==
    IF \E i \in DOMAIN d.kv : d.kv[i].k = k
    THEN d.kv[CHOOSE i \in DOMAIN d.kv : d.kv[i].k = k].v
    ELSE PyNone

NotNone(v) == v # PyNone

\* the values of the field with the nulls and the absent ones kept
FieldValues_WithNulls(data, field) == [i \in DOMAIN data |-> DictGet(data[i], field)]

\* [item.get(field) for item in data if item.get(field) is not None]
FieldValues(data, field) ==
    SelectSeq([i \in DOMAIN data |-> DictGet(data[i], field)], NotNone)

\* the body of the loop with a text field counted as a category as well
FoldField_TextIsCategory(analysis, field, field_analysis) ==
    LET is_time == field_analysis.type \in {"date", "datetime"}
    IN  [analysis EXCEPT
            !.field_types = [f \in DOMAIN @ \cup {field} |->
                                IF f = field THEN field_analysis ELSE @[f]],
            !.has_time_series = @ \/ is_time,
            !.suggested_x_field =
                IF is_time /\ ~Truthy(@) THEN PyStr(field) ELSE @,
            !.has_percentages = @ \/ field_analysis.is_percentage,
            !.has_categories = @ \/ field_analysis.type \in {"categorical", "text"},
            !.suggested_y_field =
                IF field_analysis.type = "numeric" /\ ~Truthy(@)
                THEN PyStr(field) ELSE @]

\* the body of the loop with a categorical field suggested for the x axis as
\* a date field is
FoldField_CategoryIsX(analysis, field, field_analysis) ==
    LET is_time == field_analysis.type \in {"date", "datetime"}
        is_x    == field_analysis.type \in {"date", "datetime", "categorical"}
    IN  [analysis EXCEPT
            !.field_types = [f \in DOMAIN @ \cup {field} |->
                                IF f = field THEN field_analysis ELSE @[f]],
            !.has_time_series = @ \/ is_time,
            !.suggested_x_field =
                IF is_x /\ ~Truthy(@) THEN PyStr(field) ELSE @,
            !.has_percentages = @ \/ field_analysis.is_percentage,
            !.has_categories = @ \/ field_analysis.type = "categorical",
            !.suggested_y_field =
                IF field_analysis.type = "numeric" /\ ~Truthy(@)
                THEN PyStr(field) ELSE @]

\* the body of the loop over fields under "if values": field_analysis is
\* stored and the flags and suggestions are updated
FoldField(analysis, field, field_analysis) ==
    LET is_time == field_analysis.type \in {"date", "datetime"}
    IN  [analysis EXCEPT
            !.field_types = [f \in DOMAIN @ \cup {field} |->
                                IF f = field THEN field_analysis ELSE @[f]],
            !.has_time_series = @ \/ is_time,
            !.suggested_x_field =
                IF is_time /\ ~Truthy(@) THEN PyStr(field) ELSE @,
            !.has_percentages = @ \/ field_analysis.is_percentage,
            !.has_categories = @ \/ field_analysis.type = "categorical",
            !.suggested_y_field =
                IF field_analysis.type = "numeric" /\ ~Truthy(@)
                THEN PyStr(field) ELSE @]

\* the loop's body on the values collected for the field
AnalyzeValues(analysis, field, values) ==
    IF values = <<>> THEN analysis
    ELSE FoldField(analysis, field, _analyze_field(field, values))

\* one pass of the loop over fields
AnalyzeOneField(analysis, data, field) ==
    AnalyzeValues(analysis, field, FieldValues(data, field))

RECURSIVE AnalyzeFields(_, _, _)
AnalyzeFields(analysis, data, fields) ==
    IF fields = <<>> THEN analysis
    ELSE AnalyzeFields(AnalyzeOneField(analysis, data, Head(fields)), data, Tail(fields))

\* the multi_metric test with >= 2 written for > 2
MultiMetric_AtLeastTwo(field_types) ==
    Cardinality({f \in DOMAIN field_types : field_types[f].type = "numeric"}) >= 2

\* len([f for f in field_types if field_types[f]["type"] == "numeric"]) > 2
MultiMetric(field_types) ==
    Cardinality({f \in DOMAIN field_types : field_types[f].type = "numeric"}) > 2

\* the patterns appended to data_patterns, in the order of the three tests
DataPatterns(analysis) ==
    (IF analysis.has_time_series THEN <<"time_series">> ELSE <<>>)
    \o (IF analysis.has_categories /\ analysis.has_percentages
        THEN <<"categorical_breakdown">> ELSE <<>>)
    \o (IF MultiMetric(analysis.field_types) THEN <<"multi_metric">> ELSE <<>>)

\* the three tests after the loop
WithPatterns(analysis) == [analysis EXCEPT !.data_patterns = DataPatterns(analysis)]

\* the analysis as the dict is created
StartAnalysis(data, fields) ==
    [raised            |-> FALSE,
     total_records     |-> Len(data),
     fields            |-> fields,
     field_types       |-> <<>>,
     has_time_series   |-> FALSE,
     has_categories    |-> FALSE,
     has_percentages   |-> FALSE,
     suggested_x_field |-> PyNone,
     suggested_y_field |-> PyNone,
     data_patterns     |-> <<>>]

\* list(sample.keys()) if isinstance(sample, dict) else []
SampleFields(data) == IF IsDict(data[1]) THEN Keys(data[1]) ELSE <<>>

AttributeError == [raised |-> TRUE, exc |-> "AttributeError"]

\* the function from the loop over fields on
AnalyzeFrom(data, fields) ==
    IF fields # <<>> /\ \E i \in DOMAIN data : ~IsDict(data[i])
    THEN AttributeError
    ELSE WithPatterns(AnalyzeFields(StartAnalysis(data, fields), data, fields))

\* data is the non-empty list generate_chart_data passes.  item.get raises
\* AttributeError on an item that is no dict, in the first pass of the loop
\* over fields
_analyze_data_structure(data) == AnalyzeFrom(data, SampleFields(data))

-----------------------------------------------------------------------------
(* _detect_optimal_chart_type, _generate_chart_config, _generate_title,    *)
(* _generate_description                                                   *)

\* the detection with the categorical_breakdown test moved above the
\* time_series test
_detect_optimal_chart_type_CategoricalFirst(analysis) ==
    LET patterns == Range(analysis.data_patterns) IN
    IF "categorical_breakdown" \in patterns
    THEN (IF analysis.has_percentages THEN S_pie ELSE S_bar)
    ELSE IF "time_series" \in patterns THEN S_line
    ELSE IF "multi_metric" \in patterns THEN S_multi_bar
    ELSE IF analysis.has_categories THEN S_bar
    ELSE S_line

_detect_optimal_chart_type(analysis) ==
    LET patterns == Range(analysis.data_patterns) IN
    IF "time_series" \in patterns THEN S_line
    ELSE IF "categorical_breakdown" \in patterns
         THEN (IF analysis.has_percentages THEN S_pie ELSE S_bar)
    ELSE IF "multi_metric" \in patterns THEN S_multi_bar
    ELSE IF analysis.has_categories THEN S_bar
    ELSE S_line

\* field or "default"
OrDefault(field, default) == IF Truthy(field) THEN field.s ELSE default

\* the options with the bar options given to every type but line and pie
ChartOptions_BarByDefault(chart_type, x_field, y_field) ==
    IF chart_type = S_line
    THEN [responsive  |-> TRUE,
          interaction |-> [intersect |-> FALSE],
          scales |->
            [x |-> [display |-> TRUE,
                    title |-> [display |-> TRUE, text |-> OrDefault(x_field, S_XAxis)]],
             y |-> [display |-> TRUE,
                    title |-> [display |-> TRUE, text |-> OrDefault(y_field, S_YAxis)]]]]
    ELSE IF chart_type = S_bar
    THEN [responsive |-> TRUE,
          plugins    |-> [legend |-> [position |-> "top"]],
          scales |->
            [x |-> [title |-> [display |-> TRUE,
                               text |-> OrDefault(x_field, S_Categories)]],
             y |-> [title |-> [display |-> TRUE,
                               text |-> OrDefault(y_field, S_Values)]]]]
    ELSE IF chart_type = S_pie
    THEN [responsive |-> TRUE,
          plugins    |->
            [legend  |-> [position |-> "right"],
             tooltip |-> [callbacks |-> [label |->
                "function(context) { return context.label + ': ' + context.parsed + '%'; }"]]]]
    ELSE [responsive |-> TRUE,
          plugins    |-> [legend |-> [position |-> "top"]],
          scales |->
            [x |-> [title |-> [display |-> TRUE,
                               text |-> OrDefault(x_field, S_Categories)]],
             y |-> [title |-> [display |-> TRUE,
                               text |-> OrDefault(y_field, S_Values)]]]]

ChartOptions(chart_type, x_field, y_field) ==
    IF chart_type = S_line
    THEN [responsive  |-> TRUE,
          interaction |-> [intersect |-> FALSE],
          scales |->
            [x |-> [display |-> TRUE,
                    title |-> [display |-> TRUE, text |-> OrDefault(x_field, S_XAxis)]],
             y |-> [display |-> TRUE,
                    title |-> [display |-> TRUE, text |-> OrDefault(y_field, S_YAxis)]]]]
    ELSE IF chart_type = S_bar
    THEN [responsive |-> TRUE,
          plugins    |-> [legend |-> [position |-> "top"]],
          scales |->
            [x |-> [title |-> [display |-> TRUE,
                               text |-> OrDefault(x_field, S_Categories)]],
             y |-> [title |-> [display |-> TRUE,
                               text |-> OrDefault(y_field, S_Values)]]]]
    ELSE IF chart_type = S_pie
    THEN [responsive |-> TRUE,
          plugins    |->
            [legend  |-> [position |-> "right"],
             tooltip |-> [callbacks |-> [label |->
                "function(context) { return context.label + ': ' + context.parsed + '%'; }"]]]]
    ELSE PyDict(<<>>)

_generate_chart_config(data, chart_type, x_field, y_field, analysis) ==
    [type    |-> chart_type,
     data    |-> data,
     x_field |-> x_field,
     y_field |-> y_field,
     options |-> ChartOptions(chart_type, x_field, y_field)]

\* s.capitalize() written for s.title(): only the first character is upper
\* case
TitleCase_Capitalize(s) ==
    [i \in DOMAIN s |->
        IF ~IsCased(s[i]) THEN s[i]
        ELSE IF i > 1 THEN ToLower(s[i]) ELSE ToUpper(s[i])]

\* s.title(): a cased character is upper case after an uncased one (or at the
\* start) and lower case after a cased one
TitleCase(s) ==
    [i \in DOMAIN s |->
        IF ~IsCased(s[i]) THEN s[i]
        ELSE IF i > 1 /\ IsCased(s[i - 1]) THEN ToLower(s[i]) ELSE ToUpper(s[i])]

\* field.replace('_', ' ').title(); None has no replace: AttributeError
FieldTitle(field) ==
    IF IsStr(field) THEN [ok |-> TRUE, v |-> TitleCase(Replace(field.s, "_", <<" ">>))]
    ELSE [ok |-> FALSE]

_generate_title(chart_config, analysis) ==
    LET chart_type == chart_config.type
        x          == FieldTitle(chart_config.x_field)
        y          == FieldTitle(chart_config.y_field)
    IN  IF chart_type = S_line /\ "time_series" \in Range(analysis.data_patterns)
        THEN (IF y.ok THEN [ok |-> TRUE, v |-> y.v \o S_OverTime] ELSE [ok |-> FALSE])
        ELSE IF chart_type = S_bar
        THEN (IF y.ok /\ x.ok THEN [ok |-> TRUE, v |-> y.v \o S_by \o x.v]
              ELSE [ok |-> FALSE])
        ELSE IF chart_type = S_pie
        THEN (IF y.ok THEN [ok |-> TRUE, v |-> y.v \o S_Distribution]
              ELSE [ok |-> FALSE])
        ELSE [ok |-> TRUE, v |-> TitleCase(chart_type) \o S_Chart]

\* the separator of ". ".join(desc_parts)
DescSeparator == <<".", " ">>

_generate_description(chart_config, analysis) ==
    LET patterns   == Range(analysis.data_patterns)
        desc_parts ==
            <<S_ChartShowing \o IntToStr(analysis.total_records) \o S_dataPoints>>
            \o (IF "time_series" \in patterns THEN <<S_withTimeSeries>> ELSE <<>>)
            \o (IF "categorical_breakdown" \in patterns THEN <<S_withCategorical>>
                ELSE <<>>)
            \o (IF "multi_metric" \in patterns THEN <<S_withMultiple>> ELSE <<>>)
    IN  Join(desc_parts, DescSeparator) \o <<".">>

-----------------------------------------------------------------------------
(* generate_chart_data                                                     *)

\* now.strftime("%Y-%m-%dT%H:%M:%SZ") of a four-digit year
Strftime(now) ==
    NatToStr(now.Y) \o <<"-">> \o ZeroFill(NatToStr(now.m), 2) \o <<"-">>
        \o ZeroFill(NatToStr(now.d), 2) \o <<"T">> \o ZeroFill(NatToStr(now.H), 2)
        \o <<":">> \o ZeroFill(NatToStr(now.M), 2) \o <<":">>
        \o ZeroFill(NatToStr(now.S), 2) \o <<"Z">>

ErrorResult(message) == [kind |-> "error", error |-> message]

\* the input checks with "if not data" also run before the JSON text is parsed
NormalizeData_EmptyFirst(data) ==
    LET loaded == IF IsStr(data) THEN json_loads(data.s) ELSE [ok |-> TRUE, v |-> data]
    IN  IF ~Truthy(data) THEN [ok |-> FALSE, error |-> "No data provided"]
        ELSE IF ~loaded.ok THEN [ok |-> FALSE, error |-> "Invalid JSON data provided"]
        ELSE IF ~Truthy(loaded.v) THEN [ok |-> FALSE, error |-> "No data provided"]
        ELSE IF IsDict(loaded.v) THEN [ok |-> TRUE, data |-> <<loaded.v>>]
        ELSE IF ~IsList(loaded.v)
        THEN [ok |-> FALSE,
              error |-> "Data must be a list of objects or a single object"]
        ELSE [ok |-> TRUE, data |-> loaded.v.items]

\* the input checks: the list to analyse, or the error mapping returned
NormalizeData(data) ==
    LET loaded == IF IsStr(data) THEN json_loads(data.s) ELSE [ok |-> TRUE, v |-> data]
    IN  IF ~loaded.ok THEN [ok |-> FALSE, error |-> "Invalid JSON data provided"]
        ELSE IF ~Truthy(loaded.v) THEN [ok |-> FALSE, error |-> "No data provided"]
        ELSE IF IsDict(loaded.v) THEN [ok |-> TRUE, data |-> <<loaded.v>>]
        ELSE IF ~IsList(loaded.v)
        THEN [ok |-> FALSE,
              error |-> "Data must be a list of objects or a single object"]
        ELSE [ok |-> TRUE, data |-> loaded.v.items]

\* the chart type after "if chart_type == 'auto'"
ResolveChartType(chart_type, analysis) ==
    IF chart_type = S_auto THEN _detect_optimal_chart_type(analysis) ELSE chart_type

\* the axis field with the suggestion taken whenever there is one
ResolveField_SuggestedFirst(field, suggested) ==
    IF Truthy(suggested) THEN suggested ELSE field

\* the axis field after "if not x_field"
ResolveField(field, suggested) == IF ~Truthy(field) THEN suggested ELSE field

\* lines 59 to 91: the chart of the list data and its analysis
BuildChart(data, analysis, chart_type, x_field, y_field, title, description, now) ==
    LET ct     == ResolveChartType(chart_type, analysis)
        x      == ResolveField(x_field, analysis.suggested_x_field)
        y      == ResolveField(y_field, analysis.suggested_y_field)
        config == _generate_chart_config(data, ct, x, y, analysis)
        t      == IF ~Truthy(title) THEN _generate_title(config, analysis)
                  ELSE [ok |-> TRUE, v |-> title.s]
        d      == IF ~Truthy(description) THEN _generate_description(config, analysis)
                  ELSE description.s
        locals == [data |-> data, analysis |-> analysis, chart_type |-> ct,
                   x_field |-> x, y_field |-> y]
    IN  IF ~t.ok
        THEN [ret   |-> [kind |-> "raise", exc |-> "AttributeError"],
              frame |-> [line |-> "_generate_title"] @@ locals]
        ELSE [ret |-> [kind              |-> "ok",
                       chart_type        |-> ct,
                       title             |-> t.v,
                       description       |-> d,
                       config            |-> config,
                       data_analysis     |-> analysis,
                       timestamp         |-> Strftime(now),
                       total_data_points |-> Len(data)],
              frame |-> [line |-> "return"] @@ locals]

\* the call from the return of _analyze_data_structure on
AfterAnalysis(data, analysis, chart_type, x_field, y_field, title, description, now) ==
    IF analysis.raised
    THEN [ret   |-> [kind |-> "raise", exc |-> analysis.exc],
          frame |-> [line |-> "_analyze_data_structure", data |-> data]]
    ELSE BuildChart(data, analysis, chart_type, x_field, y_field, title, description,
                    now)

\* the call from the end of the input checks on
AfterInput(norm, chart_type, x_field, y_field, title, description, now) ==
    IF ~norm.ok
    THEN [ret |-> ErrorResult(norm.error), frame |-> [line |-> "input"]]
    ELSE AfterAnalysis(norm.data, _analyze_data_structure(norm.data), chart_type,
                       x_field, y_field, title, description, now)

\* the outcome of a call at wall-clock time now, and the locals it ended with:
\* ret.kind is "ok" for a ChartResult, "error" for an error mapping, "raise"
\* for an exception leaving the tool
generate_chart_data(data, chart_type, x_field, y_field, title, description, now) ==
    AfterInput(NormalizeData(data), chart_type, x_field, y_field, title, description,
               now)

-----------------------------------------------------------------------------
(* Inputs of the field classifier                                          *)

V_pct10 == PyStr(<<"1", "0", "%">>)
V_pct20 == PyStr(<<"2", "0", "%">>)
V_pct30 == PyStr(<<"3", "0", "%">>)
V_pctBad == PyStr(<<"x", "%">>)
V_usd5 == PyStr(<<"$", "5">>)
V_usdBare == PyStr(<<"$">>)
V_usdDots == PyStr(<<"$", "1", ".", "2", ".", "3">>)
V_num12 == PyStr(<<"1", "2">>)
V_num1p5 == PyStr(<<"1", ".", "5">>)
V_ymd == PyStr(<<"2", "0", "2", "4", "-", "0", "1", "-", "0", "5">>)
V_ym == PyStr(<<"2", "0", "2", "4", "-", "0", "1">>)
V_ym2 == PyStr(<<"2", "0", "2", "4", "-", "0", "2">>)
V_ym3 == PyStr(<<"2", "0", "2", "4", "-", "0", "3">>)
V_mdy == PyStr(<<"0", "1", "/", "0", "5", "/", "2", "0", "2", "4">>)
V_dmy == PyStr(<<"2", "5", "/", "1", "2", "/", "2", "0", "2", "4">>)
V_isoT == PyStr(<<"2", "0", "2", "4", "-", "0", "1", "-", "0", "5", "T",
                  "1", "0", ":", "0", "0", ":", "0", "0">>)
V_isoSp == PyStr(<<"2", "0", "2", "4", "-", "0", "1", "-", "0", "5", " ",
                   "1", "0", ":", "0", "0", ":", "0", "0">>)
V_feb30 == PyStr(<<"2", "0", "2", "4", "-", "0", "2", "-", "3", "0">>)
V_Jan == PyStr(<<"J", "a", "n">>)
V_Feb == PyStr(<<"F", "e", "b">>)

\* values of the exhaustively enumerated short lists
ShortPool ==
    {PyInt(5), PyBool(TRUE), PyNone, V_pct10, V_usd5, V_num12, V_ymd, V_ym, V_Jan}

\* values of the long two-run lists
RunPool ==
    ShortPool \cup {PyInt(12), PyBool(FALSE), PyList(<<>>), V_pct20, V_pctBad, V_usdBare, V_usdDots,
                    V_num1p5,
                    V_mdy, V_dmy, V_isoT, V_isoSp, V_feb30, V_Feb}

\* longest exhaustively enumerated list
MaxLen == 3

\* run lengths around the 80% thresholds of the whole list and of its
\* first-10 prefix
RunLens ==
    {<<4, 1>>, <<1, 4>>, <<8, 2>>, <<9, 1>>, <<1, 9>>, <<9, 36>>, <<9, 37>>, <<10, 41>>}

Runs(a, n1, b, n2) == [i \in 1..(n1 + n2) |-> IF i <= n1 THEN a ELSE b]

ShortLists == UNION {[1..n -> ShortPool] : n \in 0..MaxLen}

LongLists == {Runs(a, r[1], b, r[2]) : a \in RunPool, b \in RunPool, r \in RunLens}

\* lists of three different values of one kind
ExampleLists == {<<V_pct10, V_pct20, V_pct30>>, <<V_ym, V_ym2, V_ym3>>}

FieldInputs == ShortLists \cup LongLists \cup ExampleLists

FieldNames == {<<"f">>}

-----------------------------------------------------------------------------
(* Calls of the field classifier                                           *)

\* the call is about to run on arguments drawn from the inputs
InitField ==
    /\ pc = "call"
    /\ op = "_analyze_field"
    /\ args \in [field_name : FieldNames, values : FieldInputs]
    /\ ret = PyNone
    /\ frame = PyNone

\* _analyze_field(field_name, values) runs and returns
AnalyzeField ==
    /\ pc = "call" /\ op = "_analyze_field"
    /\ ret' = _analyze_field(args.field_name, args.values)
    /\ frame' = [numeric_values |-> NumericValues(args.values)]
    /\ pc' = "done"
    /\ UNCHANGED <<op, args>>

NextField == AnalyzeField

SpecField == InitField /\ [][NextField]_vars

-----------------------------------------------------------------------------
(* Inputs of generate_chart_data                                           *)

F_date == <<"d", "a", "t", "e">>

F_ts == <<"t", "s">>

F_total_sales == <<"t", "o", "t", "a", "l", "_", "s", "a", "l", "e", "s">>

F_cost == <<"c", "o", "s", "t">>

F_units == <<"u", "n", "i", "t", "s">>

F_share == <<"s", "h", "a", "r", "e">>

F_region == <<"r", "e", "g", "i", "o", "n">>

F_name == <<"n", "a", "m", "e">>

F_flag == <<"f", "l", "a", "g">>

F_a == <<"a">>

F_b == <<"b">>

F_unitCost == <<"u", "n", "i", "t", "C", "o", "s", "t">>

F_empty == <<>>

F_month == <<"m", "o", "n", "t", "h">>

F_sales == <<"s", "a", "l", "e", "s">>

V_Mar == PyStr(<<"M", "a", "r">>)

\* JSON texts
J_empty == <<>>

J_list0 == <<"[", "]">>

J_dict0 == <<"{", "}">>

J_zero == <<"0">>

J_null == <<"n", "u", "l", "l">>

J_false == <<"f", "a", "l", "s", "e">>

J_str0 == <<"\"", "\"">>

J_five == <<"5">>

J_str == <<"\"", "a", "b", "c", "\"">>

J_bare == <<"a", "b", "c">>

J_ints == <<"[", "1", ",", " ", "2", "]">>

J_mixed == <<"[", "{", "\"", "a", "\"", ":", " ", "1", "}", ",", " ", "5", "]">>

J_record == <<"{", "\"", "a", "\"", ":", " ", "1", "}">>

J_rows ==
    <<"[", "{", "\"", "d", "a", "t", "e", "\"", ":", " ", "\"", "2", "0", "2", "4",
      "-", "0", "1", "-", "0", "5", "\"", ",", " ", "\"", "c", "o", "s", "t", "\"",
      ":", " ", "5", "}", "]">>

J_cut == <<"[", "{", "\"", "a", "\"", ":", " ", "1", "}">>

\* a chart type outside the documented ones
S_heatmap == <<"h", "e", "a", "t", "m", "a", "p">>

S_MyTitle == <<"M", "y", " ", "T", "i", "t", "l", "e">>

S_Note == <<"N", "o", "t", "e">>

\* the columns a generated dataset is made of, in their canonical order
Columns == <<F_date, F_ts, F_total_sales, F_cost, F_units, F_share, F_region, F_name,
             F_flag>>

\* the value of a column in row i (i in 1..3)
ColValue(col, i) ==
    CASE col = F_date -> V_ymd
      [] col = F_ts -> V_isoT
      [] col = F_total_sales -> PyInt(<<5, 12, 7>>[i])
      [] col = F_cost -> PyInt(<<3, 3, 4>>[i])
      [] col = F_units -> PyFloat(Dec(<<15, 2, 25>>[i], 1))
      [] col = F_share -> <<V_pct10, V_pct20, V_pct10>>[i]
      [] col = F_region -> V_Jan
      [] col = F_name -> <<V_Jan, V_Feb, V_Mar>>[i]
      [] col = F_flag -> <<V_pct10, V_pctBad, V_pctBad>>[i]

\* most columns of a generated dataset
MaxCols == 3

RowCounts == {1, 3}

\* the dataset of the chosen columns (cols a set of indices of Columns, taken
\* in canonical or in reverse order) with the given number of rows
Dataset(cols, rows, reverse) ==
    LET idx   == SelectSeq([i \in 1..Len(Columns) |->
                              IF reverse THEN Len(Columns) + 1 - i ELSE i],
                           LAMBDA i : i \in cols)
    IN  PyList([r \in 1..rows |->
                  PyDict([c \in DOMAIN idx |->
                            [k |-> Columns[idx[c]], v |-> ColValue(Columns[idx[c]], r)]])])

Datasets ==
    {Dataset(cols, rows, reverse) :
        cols \in {c \in SUBSET (1..Len(Columns)) : c # {} /\ Cardinality(c) <= MaxCols},
        rows \in RowCounts, reverse \in BOOLEAN}

Rec1(k, v) == PyDict(<<[k |-> k, v |-> v]>>)

Rec2(k1, v1, k2, v2) == PyDict(<<[k |-> k1, v |-> v1], [k |-> k2, v |-> v2]>>)

\* records of a text field and a number field, of a boolean field and a
\* number field, and records in which fields of other kinds come up only
\* after the first record
ExampleData ==
    {PyList(<<Rec2(F_month, V_Jan, F_sales, PyInt(1000)),
              Rec2(F_month, V_Feb, F_sales, PyInt(1200))>>),
     PyList(<<Rec2(F_flag, PyBool(TRUE), F_cost, PyInt(3)),
              Rec2(F_flag, PyBool(FALSE), F_cost, PyInt(4))>>),
     PyList(<<Rec1(F_flag, PyBool(TRUE)), Rec1(F_flag, PyBool(TRUE))>>),
     PyList(<<Rec1(F_region, V_Jan), Rec2(F_region, V_Jan, F_share, V_pct10),
              Rec2(F_date, V_ymd, F_region, V_Jan)>>),
     PyList(<<Rec2(F_cost, PyInt(3), F_b, PyNone), Rec2(F_b, PyNone, F_units, PyInt(1)),
              Rec2(F_cost, PyNone, F_total_sales, PyInt(5))>>)}

\* inputs of other shapes: empty and scalar values, lists holding items that
\* are no records, records with null or missing values, a single record, an
\* empty field name, JSON texts
OddData ==
    {PyList(<<>>), PyDict(<<>>), PyInt(0), PyInt(5), PyNone, PyBool(FALSE), PyBool(TRUE),
     PyList(<<PyInt(1), PyInt(2)>>),
     PyList(<<Rec1(F_a, PyInt(1)), PyInt(5)>>),
     PyList(<<PyInt(5), Rec1(F_a, PyInt(1))>>),
     PyList(<<Rec1(F_date, V_ymd), PyNone>>),
     PyList(<<PyDict(<<>>)>>),
     PyList(<<PyDict(<<>>), PyInt(5)>>),
     PyList(<<Rec2(F_a, PyInt(1), F_b, PyNone), Rec2(F_a, PyNone, F_b, V_Jan)>>),
     PyList(<<Rec1(F_a, PyInt(1)), Rec2(F_a, PyInt(2), F_date, V_ymd)>>),
     PyList(<<Rec1(F_a, PyNone), Rec1(F_a, PyNone)>>),
     Rec2(F_date, V_ymd, F_total_sales, PyInt(5)),
     Rec1(F_region, V_Jan),
     PyList(<<Rec2(F_empty, V_ymd, F_date, V_ymd)>>),
     PyList(<<Rec2(F_empty, PyInt(1), F_cost, PyInt(2))>>),
     PyStr(J_empty), PyStr(J_list0), PyStr(J_dict0), PyStr(J_zero), PyStr(J_null),
     PyStr(J_false), PyStr(J_str0), PyStr(J_five), PyStr(J_str), PyStr(J_bare),
     PyStr(J_ints), PyStr(J_mixed), PyStr(J_record), PyStr(J_rows), PyStr(J_cut)}

DataInputs == Datasets \cup OddData \cup ExampleData

ChartArgs(chart_type, x_field, y_field, title, description) ==
    [chart_type |-> chart_type, x_field |-> x_field, y_field |-> y_field,
     title |-> title, description |-> description]

\* chart type and overrides of a call: every single override under "auto",
\* the explicit types with and without axis overrides, an axis field that is
\* no field of the data, a type outside the documented ones
Overrides ==
    {ChartArgs(S_auto, PyNone, PyNone, PyNone, PyNone),
     ChartArgs(S_auto, PyStr(F_name), PyNone, PyNone, PyNone),
     ChartArgs(S_auto, PyNone, PyStr(F_total_sales), PyNone, PyNone),
     ChartArgs(S_auto, PyStr(F_name), PyStr(F_total_sales), PyNone, PyNone),
     ChartArgs(S_auto, PyNone, PyNone, PyStr(S_MyTitle), PyNone),
     ChartArgs(S_auto, PyNone, PyNone, PyNone, PyStr(S_Note)),
     ChartArgs(S_auto, PyStr(<<>>), PyStr(<<>>), PyStr(<<>>), PyStr(<<>>))}
    \cup {ChartArgs(t, PyNone, PyNone, PyNone, PyNone) : t \in {S_line, S_bar, S_pie, S_scatter}}
    \cup {ChartArgs(t, PyStr(F_name), PyStr(F_total_sales), PyNone, PyNone) :
            t \in {S_line, S_bar, S_pie}}
    \cup {ChartArgs(S_bar, PyStr(F_name), PyStr(F_unitCost), PyNone, PyNone)}
    \cup {ChartArgs(t, PyNone, PyNone, PyNone, PyNone) : t \in {S_multi_line, S_heatmap}}

\* wall-clock readings
ClockValues ==
    {[Y |-> 2025, m |-> 1, d |-> 2, H |-> 3, M |-> 4, S |-> 5],
     [Y |-> 2025, m |-> 12, d |-> 31, H |-> 23, M |-> 59, S |-> 59]}

-----------------------------------------------------------------------------
(* Calls of generate_chart_data                                            *)

\* the tool is about to run on arguments drawn from the inputs
Init ==
    /\ pc = "call"
    /\ op = "generate_chart_data"
    /\ \E data \in DataInputs, o \in Overrides : args = [data |-> data] @@ o
    /\ ret = PyNone
    /\ frame = PyNone

\* generate_chart_data runs to its return or to the exception that leaves it
GenerateChartData ==
    /\ pc = "call" /\ op = "generate_chart_data"
    /\ \E now \in ClockValues :
          \E r \in {generate_chart_data(args.data, args.chart_type, args.x_field,
                                        args.y_field, args.title, args.description,
                                        now)} :
              ret' = r.ret /\ frame' = r.frame
    /\ pc' = "done"
    /\ UNCHANGED <<op, args>>

Next == GenerateChartData

Spec == Init /\ [][Next]_vars

-----------------------------------------------------------------------------
(* Claims about _analyze_field                                             *)

FieldDone == pc = "done" /\ op = "_analyze_field"

\* the numbers parsed out of the call's values, in order
ParsedNumbers == NumericValues(args.values)

\* lo and hi are the least and the greatest of the numbers ds
IsMinMax(lo, hi, ds) ==
    /\ lo \in Range(ds) /\ hi \in Range(ds)
    /\ \A x \in Range(ds) : ~DecLess(x, lo) /\ ~DecLess(hi, x)

\* how many values of the first-10 prefix are strings that strptime parses
\* under the pattern
DateParsed(values, pattern) ==
    LET pre == Prefix(values, 10)
    IN  Cardinality({i \in DOMAIN pre : IsStr(pre[i]) /\ Strptime(pre[i].s, pattern)})

\* at least 80% of the first-10 prefix parses under the pattern
ClearsDate(values, pattern) ==
    10 * DateParsed(values, pattern) >= 8 * Len(Prefix(values, 10))

\* C1 as stated, on the lists the date step leaves alone: whenever at least
\* 80% of a non-empty list parses as numbers (exactly 80% included), the type
\* is numeric and range is [min, max] of the parsed numbers.
C1_AtLeast80Numeric ==
    (FieldDone /\ args.values # <<>> /\ ret.date_formats = <<>>
       /\ 10 * Len(ParsedNumbers) >= 8 * Len(args.values))
    => /\ ret.type = "numeric"
       /\ ret.range # Absent
       /\ IsMinMax(ret.range[1], ret.range[2], ParsedNumbers)

\* C1 amended: whenever strictly more than 80% of a non-empty list parses as
\* numbers, range is [min, max] of the parsed numbers and the type is numeric
\* (or the date type by which the date step replaced it); when exactly 80%
\* parses the field is not numeric and carries no range.
C1_StrictlyMoreThan80Numeric ==
    (FieldDone /\ args.values # <<>>)
    => /\ (10 * Len(ParsedNumbers) > 8 * Len(args.values))
            => /\ ret.range # Absent
               /\ IsMinMax(ret.range[1], ret.range[2], ParsedNumbers)
               /\ \/ ret.type = "numeric"
                  \/ ret.type \in {"date", "datetime"} /\ ret.date_formats # <<>>
       /\ (10 * Len(ParsedNumbers) = 8 * Len(args.values))
            => ret.type # "numeric" /\ ret.range = Absent

\* C1 witness: a list with a skipped value, more than 80% of it parsed,
\* classified numeric with a range
C1_Witness ==
    /\ FieldDone
    /\ Len(ParsedNumbers) < Len(args.values)
    /\ 10 * Len(ParsedNumbers) > 8 * Len(args.values)
    /\ ret.type = "numeric"
    /\ ret.range # Absent

\* C2: numeric wins over date: whenever strictly more than 80% of the values
\* parse as numbers the final type is numeric, also when a date pattern clears
\* its threshold on the first-10 prefix.
C2_NumericWinsOverDate ==
    (FieldDone /\ 10 * Len(ParsedNumbers) > 8 * Len(args.values))
    => ret.type = "numeric"

\* the first pattern, in the order of date_patterns, that at least 80% of the
\* prefix parses under; 0 when there is none
FirstClearing(values) ==
    LET hits == {p \in DOMAIN date_patterns : ClearsDate(values, date_patterns[p])}
    IN  IF hits = {} THEN 0 ELSE CHOOSE p \in hits : \A q \in hits : p <= q

\* C3: a field the numeric rule did not classify is classified by the first
\* pattern that at least 80% of its first-10 prefix parses under, whether the
\* values of the prefix that do not match are strings or not (stated for
\* prefixes of which strictly more than 80% parses, as 9 of 10).
C3_FirstPatternClassifies ==
    (FieldDone /\ args.values # <<>>
       /\ ~(10 * Len(ParsedNumbers) > 8 * Len(args.values))
       /\ FirstClearing(args.values) # 0
       /\ 10 * DateParsed(args.values, date_patterns[FirstClearing(args.values)])
             > 8 * Len(Prefix(args.values, 10)))
    => ret.type = PatternType(date_patterns[FirstClearing(args.values)])

\* C4: for a non-empty list of which fewer than 80% parses as numbers and for
\* which no date pattern clears 80% of the first-10 prefix, the type is
\* categorical iff distinct-values / values < 0.5 and text otherwise; a ratio
\* of exactly 0.5 gives text.
C4_CategoricalIffUnderHalfUnique ==
    (FieldDone /\ args.values # <<>>
       /\ 10 * Len(ParsedNumbers) < 8 * Len(args.values)
       /\ FirstClearing(args.values) = 0)
    => LET distinct == Cardinality({Str(args.values[i]) : i \in DOMAIN args.values})
       IN  /\ ret.type \in {"categorical", "text"}
           /\ ret.type = "categorical" <=> 2 * distinct < Len(args.values)

\* C4 witness: half of the values are distinct and the field is text
C4_Witness ==
    /\ FieldDone /\ args.values # <<>>
    /\ 10 * Len(ParsedNumbers) < 8 * Len(args.values)
    /\ FirstClearing(args.values) = 0
    /\ 2 * ret.unique_count = Len(args.values)
    /\ ret.type = "text"

-----------------------------------------------------------------------------
(* Claims about generate_chart_data                                        *)

ChartDone == pc = "done" /\ op = "generate_chart_data"

\* the call got past _analyze_data_structure: its locals are in frame
Analysed == ChartDone /\ frame.line \in {"_generate_title", "return"}

\* the value the input checks work on: the parsed text, or the value itself
LoadedInput(data) ==
    IF IsStr(data) THEN json_loads(data.s) ELSE [ok |-> TRUE, v |-> data]

\* some field of the profile has one of the types
HasType(analysis, types) ==
    \E f \in DOMAIN analysis.field_types : analysis.field_types[f].type \in types

HasPercentageField(analysis) ==
    \E f \in DOMAIN analysis.field_types : analysis.field_types[f].is_percentage

\* C5: under chart_type "auto" the resolved chart type follows the priority
\* list over the profile (time_series: line; else categorical_breakdown: pie
\* with percentages, bar without; else multi_metric: multi-bar; else
\* has_categories: bar; else line), and a returned ChartResult carries it.  A
\* profile with a date field and a numeric field gives line whatever else is
\* present; one with a categorical field, a percentage-flagged field and no
\* date or datetime field gives pie.
C5_AutoTypeByPriority ==
    (Analysed /\ args.chart_type = S_auto)
    => LET a    == frame.analysis
           pats == Range(a.data_patterns)
           ct   == frame.chart_type
       IN  /\ ct = IF "time_series" \in pats THEN S_line
                   ELSE IF "categorical_breakdown" \in pats
                        THEN (IF a.has_percentages THEN S_pie ELSE S_bar)
                   ELSE IF "multi_metric" \in pats THEN S_multi_bar
                   ELSE IF a.has_categories THEN S_bar
                   ELSE S_line
           /\ ret.kind = "ok" => ret.chart_type = ct
           /\ (HasType(a, {"date"}) /\ HasType(a, {"numeric"})) => ct = S_line
           /\ (HasType(a, {"categorical"}) /\ HasPercentageField(a)
                 /\ ~HasType(a, {"date", "datetime"})) => ct = S_pie

\* C5 witness: a profile with both time_series and categorical_breakdown, for
\* which a line chart is returned
C5_Witness ==
    /\ Analysed /\ args.chart_type = S_auto
    /\ "time_series" \in Range(frame.analysis.data_patterns)
    /\ "categorical_breakdown" \in Range(frame.analysis.data_patterns)
    /\ ret.kind = "ok" /\ ret.chart_type = S_line

\* C6: with no x_field, y_field or title override, a profile without a
\* suggested x or y field is no error: a ChartResult is returned whose config
\* has null for the absent axis field.
C6_AbsentAxisIsNoError ==
    (Analysed /\ args.x_field = PyNone /\ args.y_field = PyNone /\ args.title = PyNone
       /\ \/ frame.analysis.suggested_x_field = PyNone
          \/ frame.analysis.suggested_y_field = PyNone)
    => /\ ret.kind = "ok"
       /\ frame.analysis.suggested_x_field = PyNone => ret.config.x_field = PyNone
       /\ frame.analysis.suggested_y_field = PyNone => ret.config.y_field = PyNone

InvalidJson == ErrorResult("Invalid JSON data provided")

NoData == ErrorResult("No data provided")

WrongType == ErrorResult("Data must be a list of objects or a single object")

\* texts that are no JSON, the empty text among them
NotJsonInputs == {PyStr(J_empty), PyStr(J_bare), PyStr(J_cut)}

\* empty and falsy values, and JSON texts of such values
EmptyInputs ==
    {PyList(<<>>), PyDict(<<>>), PyInt(0), PyNone, PyBool(FALSE), PyStr(J_list0),
     PyStr(J_dict0), PyStr(J_zero), PyStr(J_null), PyStr(J_false), PyStr(J_str0)}

\* non-empty values that are neither list nor mapping, and JSON texts of such
ScalarInputs == {PyInt(5), PyBool(TRUE), PyStr(J_five), PyStr(J_str)}

\* C7 as stated: the empty text "" is empty input and returns "No data
\* provided" like [], as does any JSON text of an empty or falsy value; other
\* text that is no JSON returns "Invalid JSON data provided"; a non-empty
\* value that is neither list nor mapping returns "Data must be a list of
\* objects or a single object".
C7_EmptyTextIsNoData ==
    ChartDone
    => LET loaded == LoadedInput(args.data) IN
       /\ (~loaded.ok /\ args.data # PyStr(<<>>)) => ret = InvalidJson
       /\ (args.data = PyStr(<<>>) \/ (loaded.ok /\ ~Truthy(loaded.v))) => ret = NoData
       /\ (loaded.ok /\ Truthy(loaded.v) /\ ~IsList(loaded.v) /\ ~IsDict(loaded.v))
            => ret = WrongType

\* C7 amended: text that is no JSON, the empty text "" included, returns
\* "Invalid JSON data provided"; an empty or falsy value, or JSON text of one,
\* returns "No data provided"; a non-empty value that after parsing is neither
\* list nor mapping returns "Data must be a list of objects or a single
\* object".  No exception is raised in these cases.
C7_InputErrors ==
    ChartDone
    => LET loaded == LoadedInput(args.data) IN
       /\ ~loaded.ok => ret = InvalidJson
       /\ (loaded.ok /\ ~Truthy(loaded.v)) => ret = NoData
       /\ (loaded.ok /\ Truthy(loaded.v) /\ ~IsList(loaded.v) /\ ~IsDict(loaded.v))
            => ret = WrongType
       /\ args.data \in NotJsonInputs => ret = InvalidJson
       /\ args.data \in EmptyInputs => ret = NoData
       /\ args.data \in ScalarInputs => ret = WrongType

\* C7 witness: the call on the empty text has returned the invalid-JSON error
C7_Witness == ChartDone /\ args.data = PyStr(<<>>) /\ ret = InvalidJson

\* v is a single record or a list of records
IsRecords(v) == IsDict(v) \/ (IsList(v) /\ \A i \in DOMAIN v.items : IsDict(v.items[i]))

\* C8: every input that is neither a single record nor a list of records, a
\* non-empty list with some element that is no record included, returns a
\* mapping with an error key: no exception, no ChartResult.
C8_WrongShapeIsError ==
    (ChartDone /\ (LoadedInput(args.data).ok => ~IsRecords(LoadedInput(args.data).v)))
    => ret.kind = "error"

\* the clauses of the description, each led by a comma
CommaClauses(patterns) ==
    (IF "time_series" \in patterns THEN <<",", " ">> \o S_withTimeSeries ELSE <<>>)
    \o (IF "categorical_breakdown" \in patterns THEN <<",", " ">> \o S_withCategorical
        ELSE <<>>)
    \o (IF "multi_metric" \in patterns THEN <<",", " ">> \o S_withMultiple ELSE <<>>)

\* C9: with no description override the description is "Chart showing N data
\* points" followed by ", with time series analysis", ", with categorical
\* breakdown", ", with multiple metrics" for the patterns detected, in that
\* order, and one closing period.
C9_CommaJoinedDescription ==
    (ChartDone /\ ret.kind = "ok" /\ args.description = PyNone)
    => ret.description =
          S_ChartShowing \o IntToStr(Len(frame.data)) \o S_dataPoints
             \o CommaClauses(Range(ret.data_analysis.data_patterns)) \o <<".">>

\* the field names of the inputs, title-cased with underscores as spaces
Titled(f) ==
    CASE f = F_date -> <<"D", "a", "t", "e">>
      [] f = F_ts -> <<"T", "s">>
      [] f = F_total_sales -> <<"T", "o", "t", "a", "l", " ", "S", "a", "l", "e", "s">>
      [] f = F_cost -> <<"C", "o", "s", "t">>
      [] f = F_units -> <<"U", "n", "i", "t", "s">>
      [] f = F_share -> <<"S", "h", "a", "r", "e">>
      [] f = F_region -> <<"R", "e", "g", "i", "o", "n">>
      [] f = F_name -> <<"N", "a", "m", "e">>
      [] f = F_flag -> <<"F", "l", "a", "g">>
      [] f = F_a -> <<"A">>
      [] f = F_b -> <<"B">>
      [] f = F_empty -> <<>>
      [] f = F_unitCost -> <<"U", "n", "i", "t", "c", "o", "s", "t">>
      [] f = F_month -> <<"M", "o", "n", "t", "h">>
      [] f = F_sales -> <<"S", "a", "l", "e", "s">>

\* the chart types, title-cased
TypeTitled(ct) ==
    CASE ct = S_line -> <<"L", "i", "n", "e">>
      [] ct = S_scatter -> <<"S", "c", "a", "t", "t", "e", "r">>
      [] ct = S_multi_bar -> <<"M", "u", "l", "t", "i", "-", "B", "a", "r">>
      [] ct = S_multi_line -> <<"M", "u", "l", "t", "i", "-", "L", "i", "n", "e">>
      [] ct = S_heatmap -> <<"H", "e", "a", "t", "m", "a", "p">>
      [] ct = S_bar -> <<"B", "a", "r">>
      [] ct = S_pie -> <<"P", "i", "e">>

T_TotalSalesByName ==
    <<"T", "o", "t", "a", "l", " ", "S", "a", "l", "e", "s", " ", "b", "y", " ", "N",
      "a", "m", "e">>

\* C10: with no title override and both resolved axis fields present a
\* ChartResult is returned whose title is "{Y} Over Time" for a line chart of
\* a time series, "{Y} by {X}" for a bar chart, "{Y} Distribution" for a pie
\* chart and "{Chart Type} Chart" otherwise, X and Y being the resolved field
\* names title-cased with underscores replaced by spaces.
C10_TitleTemplates ==
    (Analysed /\ args.title = PyNone /\ IsStr(frame.x_field) /\ IsStr(frame.y_field))
    => /\ ret.kind = "ok"
       /\ LET ct == ret.chart_type
              X  == Titled(frame.x_field.s)
              Y  == Titled(frame.y_field.s)
          IN  ret.title =
                IF ct = S_line /\ "time_series" \in Range(frame.analysis.data_patterns)
                THEN Y \o S_OverTime
                ELSE IF ct = S_bar THEN Y \o S_by \o X
                ELSE IF ct = S_pie THEN Y \o S_Distribution
                ELSE TypeTitled(ct) \o S_Chart

\* C10 witness: a bar chart over a field name with an underscore
C10_Witness ==
    /\ Analysed /\ args.title = PyNone
    /\ frame.chart_type = S_bar /\ frame.y_field = PyStr(F_total_sales)
    /\ ret.kind = "ok" /\ ret.title = T_TotalSalesByName

\* C11: overrides win over inference.  In every ChartResult a chart_type other
\* than "auto" is returned as given, as chart_type and as config.type, and a
\* provided x_field, y_field, title or description appears as given, whatever
\* the profile suggests and whether or not the field occurs in the data.
C11_OverridesVerbatim ==
    (ChartDone /\ ret.kind = "ok")
    => /\ args.chart_type # S_auto
            => ret.chart_type = args.chart_type /\ ret.config.type = args.chart_type
       /\ Truthy(args.x_field) => ret.config.x_field = args.x_field
       /\ Truthy(args.y_field) => ret.config.y_field = args.y_field
       /\ Truthy(args.title) => ret.title = args.title.s
       /\ Truthy(args.description) => ret.description = args.description.s

\* C11 witness: a y_field that is no field of the data is returned although
\* the profile suggests another field
C11_Witness ==
    /\ ChartDone /\ ret.kind = "ok"
    /\ args.y_field = PyStr(F_unitCost)
    /\ IsStr(ret.data_analysis.suggested_y_field)
    /\ ret.config.y_field = PyStr(F_unitCost)

\* the fields of the profile classified numeric
NumericFields(analysis) ==
    {f \in DOMAIN analysis.field_types : analysis.field_types[f].type = "numeric"}

\* C12: in every profile has_time_series holds iff some analysed field is date
\* or datetime, has_percentages iff some analysed field has is_percentage,
\* has_categories iff some analysed field is categorical; data_patterns holds
\* time_series iff has_time_series, categorical_breakdown iff has_categories
\* and has_percentages, multi_metric iff more than 2 fields are numeric.
C12_FlagsAndPatterns ==
    Analysed
    => LET a    == frame.analysis
           pats == Range(a.data_patterns)
       IN  /\ a.has_time_series <=> HasType(a, {"date", "datetime"})
           /\ a.has_percentages <=> HasPercentageField(a)
           /\ a.has_categories <=> HasType(a, {"categorical"})
           /\ "time_series" \in pats <=> a.has_time_series
           /\ "categorical_breakdown" \in pats
                <=> (a.has_categories /\ a.has_percentages)
           /\ "multi_metric" \in pats <=> Cardinality(NumericFields(a)) > 2
           /\ pats \subseteq {"time_series", "categorical_breakdown", "multi_metric"}

\* C12 witness: a profile with exactly 2 numeric fields and no multi_metric
C12_Witness ==
    /\ Analysed
    /\ Cardinality(NumericFields(frame.analysis)) = 2
    /\ "multi_metric" \notin Range(frame.analysis.data_patterns)

\* the first field, in the order of the first record's fields, that was
\* analysed with one of the types; None when there is none
FirstFieldOfType(analysis, types) ==
    LET ft  == analysis.field_types
        idx == {i \in DOMAIN analysis.fields :
                  /\ analysis.fields[i] \in DOMAIN ft
                  /\ ft[analysis.fields[i]].type \in types}
    IN  IF idx = {} THEN PyNone
        ELSE PyStr(analysis.fields[CHOOSE i \in idx : \A j \in idx : i <= j])

\* C13: suggested_x_field is the first field, in the order of the first
\* record's fields, classified date or datetime and suggested_y_field the first
\* classified numeric, for every field name, the empty one included; each is
\* None iff there is no such field.
C13_FirstFieldSuggested ==
    Analysed
    => /\ frame.analysis.suggested_x_field
            = FirstFieldOfType(frame.analysis, {"date", "datetime"})
       /\ frame.analysis.suggested_y_field
            = FirstFieldOfType(frame.analysis, {"numeric"})

-----------------------------------------------------------------------------
(* create_custom_dataset                                                   *)

\* the elements a for loop over v goes through: the items of a list, the
\* characters of a string, the keys of a dict
Elements(v) ==
    CASE IsList(v) -> v.items
      [] IsStr(v) -> [i \in DOMAIN v.s |-> PyStr(<<v.s[i]>>)]
      [] IsDict(v) -> [i \in DOMAIN v.kv |-> PyStr(v.kv[i].k)]

\* the input checks that let every value through that is no empty one
PointsCheck_NoEmptyTest(data_points) ==
    IF ~(IsList(data_points) \/ IsStr(data_points) \/ IsDict(data_points))
    THEN "TypeError"
    ELSE IF \E i \in DOMAIN Elements(data_points) : ~IsDict(Elements(data_points)[i])
    THEN "All data points must be dictionaries"
    ELSE "ok"

\* the input checks: the error message, "TypeError" when all() cannot iterate
\* over data_points, "ok" when the dataset is built
PointsCheck(data_points) ==
    IF ~Truthy(data_points) THEN "No data points provided"
    ELSE IF ~(IsList(data_points) \/ IsStr(data_points) \/ IsDict(data_points))
    THEN "TypeError"
    ELSE IF \E i \in DOMAIN Elements(data_points) : ~IsDict(Elements(data_points)[i])
    THEN "All data points must be dictionaries"
    ELSE "ok"

\* the keys of the first record only
all_fields_FirstRecord(points) ==
    IF points = <<>> THEN {} ELSE {points[1].kv[i].k : i \in DOMAIN points[1].kv}

\* all_fields after the loop of update(point.keys())
all_fields(points) ==
    UNION {{points[j].kv[i].k : i \in DOMAIN points[j].kv} : j \in DOMAIN points}

\* field in point
HasKey(point, field) == \E i \in DOMAIN point.kv : point.kv[i].k = field

\* [point.get(field) for point in data_points if field in point]
PointValues(points, field) ==
    LET having == SelectSeq(points, LAMBDA point : HasKey(point, field))
    IN  [j \in DOMAIN having |-> DictGet(having[j], field)]

\* the orders in which a set can be iterated
Orderings(S) ==
    {q \in [1..Cardinality(S) -> S] : \A x \in S : \E i \in DOMAIN q : q[i] = x}

\* metadata.data_types with a field classified by its first value alone
DataTypes_FirstValueOnly(points, fields) ==
    [f \in {g \in fields : PointValues(points, g) # <<>>} |->
        _analyze_field(f, Prefix(PointValues(points, f), 1)).type]

\* metadata.data_types after the loop over all_fields
DataTypes(points, fields) ==
    [f \in {g \in fields : PointValues(points, g) # <<>>} |->
        _analyze_field(f, PointValues(points, f)).type]

\* the dataset built from the records points, order being the order in which
\* the set all_fields is iterated
BuildDataset(dataset_name, dataset_description, data_points, points, order, now) ==
    [kind        |-> "ok",
     name        |-> dataset_name,
     description |-> dataset_description,
     data        |-> data_points,
     metadata    |-> [total_records |-> Len(points),
                      fields        |-> order,
                      created_at    |-> Strftime(now),
                      data_types    |-> DataTypes(points, Range(order))]]

\* the outcome of a call given the outcome of the input checks
AfterPointsCheck(checked, dataset_name, dataset_description, data_points, order, now) ==
    IF checked = "ok"
    THEN BuildDataset(dataset_name, dataset_description, data_points,
                      Elements(data_points), order, now)
    ELSE IF checked = "TypeError" THEN [kind |-> "raise", exc |-> "TypeError"]
    ELSE ErrorResult(checked)

create_custom_dataset(dataset_name, dataset_description, data_points, order, now) ==
    AfterPointsCheck(PointsCheck(data_points), dataset_name, dataset_description,
                     data_points, order, now)

\* the set whose iteration order a call draws: all_fields when the dataset is
\* built, no set otherwise
IteratedFields(data_points) ==
    IF PointsCheck(data_points) = "ok" THEN all_fields(Elements(data_points)) ELSE {}

-----------------------------------------------------------------------------
(* Inputs and calls of create_custom_dataset                               *)

\* the elements the enumerated data_points are made of: records with
\* different key sets, a record with a null, the empty record, and values
\* that are no records
PointPool ==
    {Rec1(F_a, PyInt(1)), Rec2(F_a, V_pct10, F_date, V_ymd), Rec1(F_b, PyNone),
     Rec1(F_a, PyNone),
     Rec2(F_region, V_Jan, F_a, PyInt(5)), PyDict(<<>>), PyInt(5), PyNone}

\* most elements of an enumerated data_points
MaxPoints == 3

\* the enumerated lists, and values that are no lists
PointInputs ==
    {PyList(q) : q \in UNION {[1..n -> PointPool] : n \in 0..MaxPoints}}
    \cup {PyStr(<<>>), PyNone, PyStr(<<"a", "b">>), Rec1(F_a, PyInt(1)), PyInt(5)}

InitDataset ==
    /\ pc = "call"
    /\ op = "create_custom_dataset"
    /\ args \in [dataset_name : {PyStr(S_MyTitle)}, dataset_description : {PyStr(S_Note)},
                 data_points : PointInputs]
    /\ ret = PyNone
    /\ frame = PyNone

\* create_custom_dataset runs to its return or to the exception that leaves it
CreateCustomDataset ==
    /\ pc = "call" /\ op = "create_custom_dataset"
    /\ \E now \in ClockValues, order \in Orderings(IteratedFields(args.data_points)) :
          ret' = create_custom_dataset(args.dataset_name, args.dataset_description,
                                       args.data_points, order, now)
    /\ frame' = [all_fields   |-> IteratedFields(args.data_points),
                 field_values |-> [f \in IteratedFields(args.data_points) |->
                                     PointValues(Elements(args.data_points), f)]]
    /\ pc' = "done"
    /\ UNCHANGED <<op, args>>

NextDataset == CreateCustomDataset

SpecDataset == InitDataset /\ [][NextDataset]_vars

-----------------------------------------------------------------------------
(* Claims about create_custom_dataset                                      *)

DatasetDone == pc = "done" /\ op = "create_custom_dataset"

NoDataPoints == ErrorResult("No data points provided")

NotAllDicts == ErrorResult("All data points must be dictionaries")

\* C14: empty data_points returns the error "No data points provided"; a
\* non-empty list with an element that is no record returns the error "All
\* data points must be dictionaries"; no dataset is built and nothing is
\* raised, and the emptiness check comes first.
C14_DatasetInputErrors ==
    DatasetDone
    => LET data_points == args.data_points IN
       /\ data_points \in {PyList(<<>>), PyStr(<<>>), PyNone} => ret = NoDataPoints
       /\ (IsList(data_points) /\ data_points.items # <<>>
             /\ \E i \in DOMAIN data_points.items : ~IsDict(data_points.items[i]))
            => ret = NotAllDicts

\* C14 witness: a list whose first element is a record and whose last is not
\* has returned the error
C14_Witness ==
    /\ DatasetDone /\ IsList(args.data_points)
    /\ Len(args.data_points.items) > 1
    /\ IsDict(args.data_points.items[1])
    /\ ~IsDict(args.data_points.items[Len(args.data_points.items)])
    /\ ret = NotAllDicts

\* the type names _analyze_field can end with
TypeNames == {"numeric", "date", "datetime", "categorical", "text", "unknown"}

\* C15: for every non-empty list of records the names in metadata.fields and
\* the keys of metadata.data_types are the union of the keys of all records,
\* metadata.total_records is the number of records, and each data_types entry
\* is the type name alone, that of the classifier on the field's present
\* values.
C15_MetadataOverAllRecords ==
    (DatasetDone /\ IsList(args.data_points) /\ args.data_points.items # <<>>
       /\ \A i \in DOMAIN args.data_points.items : IsDict(args.data_points.items[i]))
    => LET points == args.data_points.items
           keys   == UNION {{points[j].kv[i].k : i \in DOMAIN points[j].kv} :
                              j \in DOMAIN points}
           md     == ret.metadata
       IN  /\ ret.kind = "ok"
           /\ Range(md.fields) = keys /\ Len(md.fields) = Cardinality(keys)
           /\ DOMAIN md.data_types = keys
           /\ md.total_records = Len(points)
           /\ \A f \in keys :
                /\ md.data_types[f] \in TypeNames
                /\ md.data_types[f] = _analyze_field(f, PointValues(points, f)).type

\* C15 witness: a field that only a later record has is in the metadata
C15_Witness ==
    /\ DatasetDone /\ ret.kind = "ok"
    /\ \E f \in DOMAIN ret.metadata.data_types :
          /\ ~HasKey(args.data_points.items[1], f)
          /\ f \in Range(ret.metadata.fields)

-----------------------------------------------------------------------------
(* Further claims about _analyze_field                                     *)

\* the input values that are strings with a "%" and parse as numbers without
\* it ("10%", "20%", "30%"; not "x%")
PercentParsed == {V_pct10, V_pct20, V_pct30}

\* the input values that are strings with a currency symbol whose digits and
\* dots parse as a number ("$5"; not "$", not "$1.2.3")
CurrencyParsed == {V_usd5}

\* C17: is_percentage (is_currency) is true exactly when some value is a
\* string with a "%" (a currency symbol) that was parsed as a number; a marked
\* string whose remainder does not parse sets no flag, whatever the final
\* type.  ["10%", "20%", "30%"] gives numeric, is_percentage, range [10, 30]
\* and average 20.
C17_FlagsOnlyWhenParsed ==
    FieldDone
    => /\ ret.is_percentage <=> \E i \in DOMAIN args.values : args.values[i] \in PercentParsed
       /\ ret.is_currency <=> \E i \in DOMAIN args.values : args.values[i] \in CurrencyParsed
       /\ args.values = <<V_pct10, V_pct20, V_pct30>>
            => /\ ret.type = "numeric"
               /\ ret.is_percentage /\ ~ret.is_currency
               /\ ret.range = <<Dec(10, 0), Dec(30, 0)>>
               /\ ret.average = <<[p |-> 20, q |-> 1]>>

\* C17 witness: the classifier has returned on ["10%", "20%", "30%"]
C17_Witness ==
    /\ FieldDone /\ args.values = <<V_pct10, V_pct20, V_pct30>>
    /\ ret.is_percentage /\ ret.type = "numeric"

\* C18: on the empty list the classifier returns type "unknown".
C18_EmptyIsUnknown ==
    (FieldDone /\ args.values = <<>>) => ret.type = "unknown"

\* C19: a returned profile has range and average iff its final type is
\* numeric; no date, datetime, categorical or text profile carries them.
C19_RangeIffNumeric ==
    FieldDone
    => /\ ret.range # Absent <=> ret.type = "numeric"
       /\ ret.average # Absent <=> ret.type = "numeric"

-----------------------------------------------------------------------------
(* Further claims about generate_chart_data                                *)

\* the records of an input that leads to a ChartResult: those of the JSON
\* texts among the inputs written out, a single record wrapped in a list, the
\* items of a list
ExpectedRecords(data) ==
    CASE data = PyStr(J_record) -> <<Rec1(F_a, PyInt(1))>>
      [] data = PyStr(J_rows) -> <<Rec2(F_date, V_ymd, F_cost, PyInt(5))>>
      [] data = PyStr(J_ints) -> <<PyInt(1), PyInt(2)>>
      [] IsDict(data) -> <<data>>
      [] IsList(data) -> data.items

\* the text of an axis title: the field when there is one, else the default
AxisText(field, default) == IF field \in {PyNone, PyStr(<<>>)} THEN default ELSE field.s

\* C20: in every ChartResult config.data is the parsed input, a single record
\* wrapped in a list; total_data_points is the number of records and equals
\* data_analysis.total_records; config.type is chart_type; config.options has
\* the axis titles for line and bar, the legend position "right" for pie and
\* is the empty object for every other type.
C20_SuccessResult ==
    (ChartDone /\ ret.kind = "ok")
    => LET c == ret.config
           o == ret.config.options
       IN  /\ c.data = ExpectedRecords(args.data)
           /\ ret.total_data_points = Len(c.data)
           /\ ret.total_data_points = ret.data_analysis.total_records
           /\ c.type = ret.chart_type
           /\ c.type = S_line
                => /\ o.scales.x.title.text = AxisText(c.x_field, S_XAxis)
                   /\ o.scales.y.title.text = AxisText(c.y_field, S_YAxis)
           /\ c.type = S_bar
                => /\ o.scales.x.title.text = AxisText(c.x_field, S_Categories)
                   /\ o.scales.y.title.text = AxisText(c.y_field, S_Values)
                   /\ o.plugins.legend.position = "top"
           /\ c.type = S_pie => o.plugins.legend.position = "right"
           /\ c.type \notin {S_line, S_bar, S_pie} => o = PyDict(<<>>)

\* C20 witness: a single record charted as scatter: one data point, the
\* record echoed in a list, empty options
C20_Witness ==
    /\ ChartDone /\ ret.kind = "ok"
    /\ IsDict(args.data) /\ args.chart_type = S_scatter
    /\ ret.config.data = <<args.data>> /\ ret.total_data_points = 1
    /\ ret.config.options = PyDict(<<>>)

-----------------------------------------------------------------------------
(* get_weather (demo.py)                                                   *)

\* the keys get_weather reads in the response of WeatherAPI.com
WeatherKeys ==
    [current |-> <<"c", "u", "r", "r", "e", "n", "t">>,
     location |-> <<"l", "o", "c", "a", "t", "i", "o", "n">>,
     name |-> <<"n", "a", "m", "e">>,
     country |-> <<"c", "o", "u", "n", "t", "r", "y">>,
     region |-> <<"r", "e", "g", "i", "o", "n">>,
     localtime |-> <<"l", "o", "c", "a", "l", "t", "i", "m", "e">>,
     temp_c |-> <<"t", "e", "m", "p", "_", "c">>,
     feelslike_c |-> <<"f", "e", "e", "l", "s", "l", "i", "k", "e", "_", "c">>,
     condition |-> <<"c", "o", "n", "d", "i", "t", "i", "o", "n">>,
     text |-> <<"t", "e", "x", "t">>,
     humidity |-> <<"h", "u", "m", "i", "d", "i", "t", "y">>,
     wind_kph |-> <<"w", "i", "n", "d", "_", "k", "p", "h">>,
     wind_dir |-> <<"w", "i", "n", "d", "_", "d", "i", "r">>,
     uv |-> <<"u", "v">>,
     air_quality |-> <<"a", "i", "r", "_", "q", "u", "a", "l", "i", "t", "y">>,
     us_epa_index |-> <<"u", "s", "-", "e", "p", "a", "-", "i", "n", "d", "e", "x">>]

\* the texts of get_weather and fetch_weather_data; bullet stands for the
\* character U+2022, nl is the line feed
WeatherText ==
    [key_not_set |->
        <<"W", "E", "A", "T", "H", "E", "R", "A", "P", "I", "_", "K", "E", "Y", " ",
          "e", "n", "v", "i", "r", "o", "n", "m", "e", "n", "t", " ", "v", "a", "r",
          "i", "a", "b", "l", "e", " ", "i", "s", " ", "n", "o", "t", " ", "s", "e",
          "t">>,
     failed_to_fetch |->
        <<"F", "a", "i", "l", "e", "d", " ", "t", "o", " ", "f", "e", "t", "c", "h",
          " ", "w", "e", "a", "t", "h", "e", "r", " ", "d", "a", "t", "a", ":", " ">>,
     sorry |->
        <<"S", "o", "r", "r", "y", ",", " ", "I", " ", "c", "o", "u", "l", "d", "n",
          "'", "t", " ", "f", "e", "t", "c", "h", " ", "t", "h", "e", " ", "w", "e",
          "a", "t", "h", "e", "r", " ", "d", "a", "t", "a", " ", "f", "o", "r", " ">>,
     dot_error |->
        <<".", " ", "E", "r", "r", "o", "r", ":", " ">>,
     na |->
        <<"N", "/", "A">>,
     current_weather_in |->
        <<"C", "u", "r", "r", "e", "n", "t", " ", "w", "e", "a", "t", "h", "e", "r",
          " ", "i", "n", " ">>,
     local_time |->
        <<" ", "(", "L", "o", "c", "a", "l", " ", "t", "i", "m", "e", ":", " ">>,
     temperature |->
        <<" ", "T", "e", "m", "p", "e", "r", "a", "t", "u", "r", "e", ":", " ">>,
     feels_like |->
        <<"C", " ", "(", "f", "e", "e", "l", "s", " ", "l", "i", "k", "e", " ">>,
     conditions |->
        <<" ", "C", "o", "n", "d", "i", "t", "i", "o", "n", "s", ":", " ">>,
     humidity |->
        <<" ", "H", "u", "m", "i", "d", "i", "t", "y", ":", " ">>,
     wind |->
        <<" ", "W", "i", "n", "d", ":", " ">>,
     kmh_from |->
        <<" ", "k", "m", "/", "h", " ", "f", "r", "o", "m", " ">>,
     uv_index |->
        <<" ", "U", "V", " ", "I", "n", "d", "e", "x", ":", " ">>,
     air_quality |->
        <<" ", "A", "i", "r", " ", "Q", "u", "a", "l", "i", "t", "y", " ", "I", "n",
          "d", "e", "x", " ", "(", "U", "S", " ", "E", "P", "A", ")", ":", " ">>,
     bullet |-> <<"U+2022">>,
     degree |-> <<"°">>,
     nl |-> <<"\n">>]

\* the messages of the exceptions the interpreter and the JSON decoder raise
\* inside get_weather, and the type names they spell
ErrorText ==
    [expecting_value |->
        <<"E", "x", "p", "e", "c", "t", "i", "n", "g", " ", "v", "a", "l", "u", "e",
          ":", " ", "l", "i", "n", "e", " ", "1", " ", "c", "o", "l", "u", "m", "n",
          " ", "1", " ", "(", "c", "h", "a", "r", " ", "0", ")">>,
     list_indices |->
        <<"l", "i", "s", "t", " ", "i", "n", "d", "i", "c", "e", "s", " ", "m", "u",
          "s", "t", " ", "b", "e", " ", "i", "n", "t", "e", "g", "e", "r", "s", " ",
          "o", "r", " ", "s", "l", "i", "c", "e", "s", ",", " ", "n", "o", "t", " ",
          "s", "t", "r">>,
     string_indices |->
        <<"s", "t", "r", "i", "n", "g", " ", "i", "n", "d", "i", "c", "e", "s", " ",
          "m", "u", "s", "t", " ", "b", "e", " ", "i", "n", "t", "e", "g", "e", "r",
          "s", ",", " ", "n", "o", "t", " ", "'", "s", "t", "r", "'">>,
     not_subscriptable |->
        <<"'", " ", "o", "b", "j", "e", "c", "t", " ", "i", "s", " ", "n", "o", "t",
          " ", "s", "u", "b", "s", "c", "r", "i", "p", "t", "a", "b", "l", "e">>,
     no_round |->
        <<" ", "d", "o", "e", "s", "n", "'", "t", " ", "d", "e", "f", "i", "n", "e",
          " ", "_", "_", "r", "o", "u", "n", "d", "_", "_", " ", "m", "e", "t", "h",
          "o", "d">>,
     no_get |->
        <<"'", " ", "o", "b", "j", "e", "c", "t", " ", "h", "a", "s", " ", "n", "o",
          " ", "a", "t", "t", "r", "i", "b", "u", "t", "e", " ", "'", "g", "e", "t",
          "'">>,
     type_ |->
        <<"t", "y", "p", "e", " ">>,
     NoneType |->
        <<"N", "o", "n", "e", "T", "y", "p", "e">>,
     str |->
        <<"s", "t", "r">>,
     int |->
        <<"i", "n", "t">>,
     float |->
        <<"f", "l", "o", "a", "t">>,
     bool |->
        <<"b", "o", "o", "l">>,
     list |->
        <<"l", "i", "s", "t">>,
     dict |->
        <<"d", "i", "c", "t">>]

\* an exception of class exc whose str() is msg
Raised(exc, msg) == [t |-> "raise", exc |-> exc, msg |-> msg]

\* type(v).__name__
TypeName(v) ==
    CASE v.t = "none" -> ErrorText.NoneType
      [] v.t = "str" -> ErrorText.str
      [] v.t = "int" -> ErrorText.int
      [] v.t = "float" -> ErrorText.float
      [] v.t = "bool" -> ErrorText.bool
      [] v.t = "list" -> ErrorText.list
      [] v.t = "dict" -> ErrorText.dict

\* o[key] for a string key, o being a value or the exception already raised
Subscript(o, key) ==
    CASE o.t = "raise" -> o
      [] o.t = "dict" ->
            IF \E i \in DOMAIN o.kv : o.kv[i].k = key THEN DictGet(o, key)
            ELSE Raised("KeyError", Repr(PyStr(key)))
      [] o.t = "list" -> Raised("TypeError", ErrorText.list_indices)
      [] o.t = "str" -> Raised("TypeError", ErrorText.string_indices)
      [] OTHER -> Raised("TypeError", <<"'">> \o TypeName(o) \o ErrorText.not_subscriptable)

\* o.get(key, default)
GetOr(o, key, default) ==
    CASE o.t = "raise" -> o
      [] o.t = "dict" ->
            IF \E i \in DOMAIN o.kv : o.kv[i].k = key THEN DictGet(o, key) ELSE default
      [] OTHER -> Raised("AttributeError", <<"'">> \o TypeName(o) \o ErrorText.no_get)

\* round(d) of a float: to the nearest integer, a tie to the even one
RoundDec(d) ==
    LET p == Pow10(d.e)
        q == d.m \div p
        r == d.m - q * p
    IN  IF 2 * r < p THEN q
        ELSE IF 2 * r > p THEN q + 1
        ELSE IF q % 2 = 0 THEN q ELSE q + 1

\* round(o)
Round(o) ==
    CASE o.t = "raise" -> o
      [] o.t = "int" -> o
      [] o.t = "bool" -> PyInt(IF o.b THEN 1 ELSE 0)
      [] o.t = "float" -> PyInt(RoundDec(o.d))
      [] OTHER -> Raised("TypeError", ErrorText.type_ \o TypeName(o) \o ErrorText.no_round)

\* what requests.get and response.json() give for a response of the service:
\* the exception of a failed connection, of a status that is not OK, of a body
\* that is no JSON text, or the decoded body
ResponseOutcome(response) ==
    IF response.kind = "ConnectionError" THEN Raised("ConnectionError", response.text)
    ELSE IF ~response.ok
    THEN Raised("ValueError", WeatherText.failed_to_fetch \o response.text)
    ELSE response.json

\* fetch_weather_data: its outcome and the requests it has sent
fetch_weather_data(location, api_key, response) ==
    IF ~Truthy(api_key)
    THEN [out |-> Raised("ValueError", WeatherText.key_not_set), sent |-> <<>>]
    ELSE [out  |-> ResponseOutcome(response),
          sent |-> <<[key |-> api_key.s, q |-> location, aqi |-> "yes"]>>]

\* the lookups of lines 48-70 in the order they are evaluated, each a value or
\* the exception it raises
Lookups(current, location_data) ==
    <<current, location_data,
      Subscript(location_data, WeatherKeys.name),
      Subscript(location_data, WeatherKeys.country),
      Subscript(location_data, WeatherKeys.region),
      Subscript(location_data, WeatherKeys.localtime),
      Round(Subscript(current, WeatherKeys.temp_c)),
      Round(Subscript(current, WeatherKeys.feelslike_c)),
      Subscript(Subscript(current, WeatherKeys.condition), WeatherKeys.text),
      Subscript(current, WeatherKeys.humidity),
      Round(Subscript(current, WeatherKeys.wind_kph)),
      Subscript(current, WeatherKeys.wind_dir),
      Subscript(current, WeatherKeys.uv),
      GetOr(GetOr(current, WeatherKeys.air_quality, PyDict(<<>>)),
            WeatherKeys.us_epa_index, PyStr(WeatherText.na))>>

weather_info(data) ==
    Lookups(Subscript(data, WeatherKeys.current), Subscript(data, WeatherKeys.location))

\* the formatted text of lines 74-84 (info as returned by weather_info, all of
\* its lookups values)
weather_str(info) ==
    WeatherText.current_weather_in \o Str(info[3]) \o <<",", " ">> \o Str(info[5])
        \o <<",", " ">> \o Str(info[4])
        \o WeatherText.local_time \o Str(info[6]) \o <<")", ":">> \o WeatherText.nl
        \o WeatherText.bullet \o WeatherText.temperature \o Str(info[7])
        \o WeatherText.degree \o WeatherText.feels_like \o Str(info[8])
        \o WeatherText.degree \o <<"C", ")">> \o WeatherText.nl
        \o WeatherText.bullet \o WeatherText.conditions \o Str(info[9]) \o WeatherText.nl
        \o WeatherText.bullet \o WeatherText.humidity \o Str(info[10]) \o <<"%">>
        \o WeatherText.nl
        \o WeatherText.bullet \o WeatherText.wind \o Str(info[11]) \o WeatherText.kmh_from
        \o Str(info[12]) \o WeatherText.nl
        \o WeatherText.bullet \o WeatherText.uv_index \o Str(info[13]) \o WeatherText.nl
        \o WeatherText.bullet \o WeatherText.air_quality \o Str(info[14])

\* except Exception as e: every exception becomes the apology and is
\* propagated no further
ExceptException_ValueErrorOnly(location, e) ==
    IF e.exc = "ValueError"
    THEN PyStr(WeatherText.sorry \o Str(location) \o WeatherText.dot_error \o e.msg)
    ELSE e

\* except Exception as e: return f"Sorry, ... for {location}. Error: {str(e)}"
ExceptException(location, e) ==
    PyStr(WeatherText.sorry \o Str(location) \o WeatherText.dot_error \o e.msg)

\* the rest of the try block once the lookups are evaluated: the first
\* exception among them reaches the except clause
AfterLookups(location, info) ==
    IF \E i \in DOMAIN info : info[i].t = "raise"
    THEN ExceptException(location,
             info[CHOOSE i \in DOMAIN info :
                     /\ info[i].t = "raise"
                     /\ \A j \in 1..(i - 1) : info[j].t # "raise"])
    ELSE PyStr(weather_str(info))

\* the try block after fetch_weather_data has returned or raised
AfterFetch(location, out) ==
    IF out.t = "raise" THEN ExceptException(location, out)
    ELSE AfterLookups(location, weather_info(out))

\* get_weather: what it returns, how often it has called fetch_weather_data and
\* the requests that call has sent
get_weather(location, api_key, response) ==
    [ret   |-> AfterFetch(location, fetch_weather_data(location, api_key, response).out),
     frame |-> [fetch_calls |-> 1,
                sent        |-> fetch_weather_data(location, api_key, response).sent]]

-----------------------------------------------------------------------------
(* Inputs and calls of get_weather                                         *)

S_London == <<"L", "o", "n", "d", "o", "n">>

Locations == {PyStr(S_London), PyStr(<<"N", "e", "w", " ", "Y", "o", "r", "k">>), PyStr(<<>>)}

\* WEATHERAPI_KEY in the environment: unset, empty, set
ApiKeys == {PyNone, PyStr(<<>>), PyStr(<<"k", "1">>)}

\* the temp_c readings of the bodies: ties of round(), an int, a bool
Temperatures ==
    {PyFloat(Dec(145, 1)), PyFloat(Dec(155, 1)), PyFloat(Dec(-5, 1)), PyFloat(Dec(-15, 1)),
     PyFloat(Dec(1449, 2)), PyInt(14), PyBool(TRUE)}

LocationBody ==
    PyDict(<<[k |-> WeatherKeys.name, v |-> PyStr(S_London)],
             [k |-> WeatherKeys.region, v |-> PyStr(<<"C", "i", "t", "y">>)],
             [k |-> WeatherKeys.country, v |-> PyStr(<<"U", "K">>)],
             [k |-> WeatherKeys.localtime,
              v |-> PyStr(<<"2", "0", "2", "5", "-", "0", "1", "-", "0", "2", " ",
                            "0", "3", ":", "0", "4">>)]>>)

CurrentBody(temp_c) ==
    PyDict(<<[k |-> WeatherKeys.temp_c, v |-> temp_c],
             [k |-> WeatherKeys.feelslike_c, v |-> PyFloat(Dec(25, 1))],
             [k |-> WeatherKeys.condition,
              v |-> PyDict(<<[k |-> WeatherKeys.text,
                              v |-> PyStr(<<"S", "u", "n", "n", "y">>)]>>)],
             [k |-> WeatherKeys.humidity, v |-> PyInt(80)],
             [k |-> WeatherKeys.wind_kph, v |-> PyFloat(Dec(101, 1))],
             [k |-> WeatherKeys.wind_dir, v |-> PyStr(<<"N", "W">>)],
             [k |-> WeatherKeys.uv, v |-> PyFloat(Dec(3, 0))],
             [k |-> WeatherKeys.air_quality,
              v |-> PyDict(<<[k |-> WeatherKeys.us_epa_index, v |-> PyInt(2)]>>)]>>)

\* a complete body
Body(temp_c) ==
    PyDict(<<[k |-> WeatherKeys.location, v |-> LocationBody],
             [k |-> WeatherKeys.current, v |-> CurrentBody(temp_c)]>>)

\* the dict d with the value at the key path replaced by v
RECURSIVE Put(_, _, _)
Put(d, path, v) ==
    PyDict([i \in DOMAIN d.kv |->
              IF d.kv[i].k # Head(path) THEN d.kv[i]
              ELSE [k |-> d.kv[i].k,
                    v |-> IF Len(path) = 1 THEN v ELSE Put(d.kv[i].v, Tail(path), v)]])

\* the dict d without the key at the key path
RECURSIVE Without(_, _)
Without(d, path) ==
    IF Len(path) = 1 THEN PyDict(SelectSeq(d.kv, LAMBDA e : e.k # Head(path)))
    ELSE PyDict([i \in DOMAIN d.kv |->
                   IF d.kv[i].k # Head(path) THEN d.kv[i]
                   ELSE [k |-> d.kv[i].k, v |-> Without(d.kv[i].v, Tail(path))]])

\* the key paths get_weather subscripts
ExpectedKeyPaths ==
    {<<WeatherKeys.current>>, <<WeatherKeys.location>>,
     <<WeatherKeys.current, WeatherKeys.condition, WeatherKeys.text>>}
    \cup {<<WeatherKeys.location, k>> :
            k \in {WeatherKeys.name, WeatherKeys.country, WeatherKeys.region,
                   WeatherKeys.localtime}}
    \cup {<<WeatherKeys.current, k>> :
            k \in {WeatherKeys.temp_c, WeatherKeys.feelslike_c, WeatherKeys.condition,
                   WeatherKeys.humidity, WeatherKeys.wind_kph, WeatherKeys.wind_dir,
                   WeatherKeys.uv}}

\* the key paths get_weather reads with a default
OptionalKeyPaths ==
    {<<WeatherKeys.current, WeatherKeys.air_quality>>,
     <<WeatherKeys.current, WeatherKeys.air_quality, WeatherKeys.us_epa_index>>}

\* the decoded bodies of an OK response: complete ones, bodies lacking one
\* key, bodies with a null or a string where a record or a number is expected,
\* bodies that are no record
WeatherBodies ==
    {Body(temp_c) : temp_c \in Temperatures}
    \cup {Without(Body(PyInt(14)), p) : p \in ExpectedKeyPaths \cup OptionalKeyPaths}
    \cup {Put(Body(PyInt(14)), p, PyNone) :
            p \in {<<WeatherKeys.current>>, <<WeatherKeys.location>>,
                   <<WeatherKeys.current, WeatherKeys.temp_c>>,
                   <<WeatherKeys.current, WeatherKeys.air_quality>>}}
    \cup {Put(Body(PyInt(14)), <<WeatherKeys.current, WeatherKeys.temp_c>>,
              PyStr(<<"1", "4">>)),
          Put(Body(PyInt(14)), <<WeatherKeys.current, WeatherKeys.condition>>,
              PyStr(<<"S", "u", "n", "n", "y">>)),
          PyList(<<>>), PyNone, PyDict(<<>>)}

WeatherResponse(kind, ok, text, json) ==
    [kind |-> kind, ok |-> ok, text |-> text, json |-> json]

\* what the service can answer: no connection, a status that is not OK with
\* its text, an OK status whose text is no JSON, an OK status with a body
WeatherResponses ==
    {WeatherResponse("ConnectionError", FALSE,
                     <<"r", "e", "f", "u", "s", "e", "d">>, PyNone),
     WeatherResponse("response", FALSE, <<"N", "o", " ", "k", "e", "y">>, PyNone),
     WeatherResponse("response", FALSE, <<>>, PyNone),
     WeatherResponse("response", TRUE, <<"<", "h", "t", "m", "l", ">">>,
                     Raised("JSONDecodeError", ErrorText.expecting_value))}
    \cup {WeatherResponse("response", TRUE, <<>>, b) : b \in WeatherBodies}

InitWeather ==
    /\ pc = "call"
    /\ op = "get_weather"
    /\ args \in [location : Locations]
    /\ ret = PyNone
    /\ frame = PyNone

\* get_weather runs to its return, in an environment that holds or lacks the
\* API key and with a service that answers the request in one of its ways
GetWeather ==
    /\ pc = "call" /\ op = "get_weather"
    /\ \E api_key \in ApiKeys, response \in WeatherResponses :
          \E r \in {get_weather(args.location, api_key, response)} :
              /\ ret' = r.ret
              /\ frame' = [api_key |-> api_key, response |-> response] @@ r.frame
    /\ pc' = "done"
    /\ UNCHANGED <<op, args>>

NextWeather == GetWeather

SpecWeather == InitWeather /\ [][NextWeather]_vars

-----------------------------------------------------------------------------
(* Claims about get_weather                                                *)

WeatherDone == pc = "done" /\ op = "get_weather"

\* the value has a value at the key path
RECURSIVE HasPath(_, _)
HasPath(v, path) ==
    \/ path = <<>>
    \/ /\ IsDict(v)
       /\ \E i \in DOMAIN v.kv :
             v.kv[i].k = Head(path) /\ HasPath(v.kv[i].v, Tail(path))

\* the fetch of the call has failed: no API key, no connection, a status that
\* is not OK, a body that is no JSON or lacks an expected key
FetchFailed ==
    \/ frame.api_key \in {PyNone, PyStr(<<>>)}
    \/ frame.response.kind = "ConnectionError"
    \/ ~frame.response.ok
    \/ frame.response.json.t = "raise"
    \/ \E p \in ExpectedKeyPaths : ~HasPath(frame.response.json, p)

Apology(location) ==
    <<"S", "o", "r", "r", "y", ",", " ", "I", " ", "c", "o", "u", "l", "d", "n", "'",
      "t", " ", "f", "e", "t", "c", "h", " ", "t", "h", "e", " ", "w", "e", "a", "t",
      "h", "e", "r", " ", "d", "a", "t", "a", " ", "f", "o", "r", " ">> \o location

\* C21: a call of get_weather calls fetch_weather_data exactly once and sends
\* at most one request (exactly one when the API key is set); it always returns
\* a string and raises nothing; whenever the fetch fails (no API key, a
\* response that is not OK, a body lacking an expected key) the string begins
\* "Sorry, I couldn't fetch the weather data for {location}".
C21_SingleFetchAndApology ==
    WeatherDone
    => /\ ret.t = "str"
       /\ frame.fetch_calls = 1
       /\ Len(frame.sent) <= 1
       /\ Truthy(frame.api_key) => Len(frame.sent) = 1
       /\ FetchFailed => StartsWith(ret.s, 1, Apology(args.location.s))

\* C21 witness: an OK response whose body lacks condition.text has been
\* answered by the apology, after one request
C21_Witness ==
    /\ WeatherDone
    /\ frame.response.ok /\ IsDict(frame.response.json)
    /\ HasPath(frame.response.json, <<WeatherKeys.current, WeatherKeys.condition>>)
    /\ ~HasPath(frame.response.json,
                <<WeatherKeys.current, WeatherKeys.condition, WeatherKeys.text>>)
    /\ Len(frame.sent) = 1
    /\ StartsWith(ret.s, 1, Apology(args.location.s))
    /\ args.location.s # <<>>

-----------------------------------------------------------------------------
(* Claims about generate_chart_data on whole datasets                      *)

\* the call has no override: chart_type "auto", no axis field, title or
\* description
NoOverrides ==
    /\ args.chart_type = S_auto
    /\ args.x_field = PyNone /\ args.y_field = PyNone
    /\ args.title = PyNone /\ args.description = PyNone

\* some date pattern parses the text
IsDateText(s) == \E p \in DOMAIN date_patterns : Strptime(s, date_patterns[p])

\* every record has the two fields s and n and no other; the values of s are
\* strings, all different, none of them a date; the values of n are native
\* numbers
TextAndNumberRecords(records, s, n) ==
    /\ records # <<>> /\ s # n
    /\ \A i \in DOMAIN records :
          /\ IsDict(records[i])
          /\ Len(records[i].kv) = 2 /\ Range(Keys(records[i])) = {s, n}
          /\ IsStr(DictGet(records[i], s)) /\ ~IsDateText(DictGet(records[i], s).s)
          /\ DictGet(records[i], n).t \in {"int", "float"}
    /\ \A i, j \in DOMAIN records :
          DictGet(records[i], s) = DictGet(records[j], s) => i = j

\* the ChartResult of a text field s and a number field n
TextAndNumberChart(s, n) ==
    /\ ret.kind = "ok"
    /\ ret.data_analysis.field_types[s].type = "text"
    /\ ~ret.data_analysis.has_categories
    /\ ret.data_analysis.suggested_y_field = PyStr(n)
    /\ ret.data_analysis.suggested_x_field = PyNone
    /\ ret.chart_type = S_line

\* C22 as stated: with no overrides, records of one string field with
\* all-distinct non-date values and one numeric field give a ChartResult with
\* the string field classified "text", has_categories false, suggested_y_field
\* the numeric field, suggested_x_field null and chart_type "line".
C22_StringAndNumberField ==
    (ChartDone /\ NoOverrides /\ IsList(args.data))
    => \A s, n \in Range(SampleFields(args.data.items \o <<PyNone>>)) :
          TextAndNumberRecords(args.data.items, s, n) => TextAndNumberChart(s, n)

\* C22 amended: the same for a string field whose values parse neither as
\* dates nor as numbers (plain, "%"-bearing or currency-marked).
C22_TextAndNumberField ==
    (ChartDone /\ NoOverrides /\ IsList(args.data))
    => \A s, n \in Range(SampleFields(args.data.items \o <<PyNone>>)) :
          (/\ TextAndNumberRecords(args.data.items, s, n)
           /\ \A i \in DOMAIN args.data.items :
                 ~NumericOk(DictGet(args.data.items[i], s)))
          => TextAndNumberChart(s, n)

\* C22 witness: the example of the two months has been charted
C22_Witness ==
    /\ ChartDone /\ NoOverrides
    /\ args.data = PyList(<<Rec2(F_month, V_Jan, F_sales, PyInt(1000)),
                            Rec2(F_month, V_Feb, F_sales, PyInt(1200))>>)
    /\ TextAndNumberRecords(args.data.items, F_month, F_sales)
    /\ TextAndNumberChart(F_month, F_sales)
    /\ ret.config.x_field = PyNone /\ ret.config.y_field = PyStr(F_sales)

-----------------------------------------------------------------------------
(* Claims about the numeric rule of _analyze_field                         *)

\* the number each input value stands for, none for a value the numeric loop
\* skips: a native number or boolean, a string of a number, with "%" or "$"
NumberOf(v) ==
    CASE v \in {PyInt(5), V_usd5} -> <<Dec(5, 0)>>
      [] v \in {PyInt(12), V_num12} -> <<Dec(12, 0)>>
      [] v = PyBool(TRUE) -> <<Dec(1, 0)>>
      [] v = PyBool(FALSE) -> <<Dec(0, 0)>>
      [] v = V_pct10 -> <<Dec(10, 0)>>
      [] v = V_pct20 -> <<Dec(20, 0)>>
      [] v = V_pct30 -> <<Dec(30, 0)>>
      [] v = V_num1p5 -> <<Dec(15, 1)>>
      [] OTHER -> <<>>

IsNumber(v) == NumberOf(v) # <<>>

\* the numbers of the values that stand for one, in order
ExpectedNumbers(values) ==
    LET kept == SelectSeq(values, IsNumber)
    IN  [i \in DOMAIN kept |-> NumberOf(kept[i])[1]]

\* C23: the numeric rule classifies a field (sets range and average, and the
\* type numeric unless the date step replaces it) if and only if strictly
\* more than 80% of the values parse as numbers, so 4 of 5 and 8 of 10 are
\* not numeric; values that do not parse are skipped without an error and
\* range and average are those of the parsed numbers alone.
C23_StrictNumericRule ==
    FieldDone
    => LET nums == ExpectedNumbers(args.values)
           over == 5 * Len(nums) > 4 * Len(args.values)
       IN  /\ frame.numeric_values = nums
           /\ ret.type \in TypeNames
           /\ over <=> ret.range # Absent
           /\ over <=> ret.average # Absent
           /\ over => /\ IsMinMax(ret.range[1], ret.range[2], nums)
                      /\ ret.average = <<Mean(nums)>>
                      /\ ret.date_formats = <<>> => ret.type = "numeric"
           /\ ~over => ret.type # "numeric"

\* C23 witness: of five values four are parsed and one is skipped, and the
\* field is not numeric
C23_Witness ==
    /\ FieldDone
    /\ Len(args.values) = 5 /\ Len(frame.numeric_values) = 4
    /\ ret.type \in {"categorical", "text"}
    /\ ret.range = Absent /\ ret.average = Absent

-----------------------------------------------------------------------------
(* Claims about _analyze_data_structure on records of different shapes     *)

\* the record without the fields that are not among keys
Restricted(record, keys) ==
    IF IsDict(record) THEN PyDict(SelectSeq(record.kv, LAMBDA e : e.k \in keys))
    ELSE record

\* the values of the field in the records that have one that is not null, in
\* the order of the records
PresentValues(records, f) ==
    LET having == SelectSeq(records,
                            LAMBDA r : \E i \in DOMAIN r.kv :
                                          r.kv[i].k = f /\ r.kv[i].v # PyNone)
    IN  [j \in DOMAIN having |->
            having[j].kv[CHOOSE i \in DOMAIN having[j].kv : having[j].kv[i].k = f].v]

\* C24: the analysis is driven by the first record's fields: fields is the
\* list of its keys; field_types has an entry exactly for those of them with a
\* non-null value in some record, the classification of the field's non-null
\* values over all records in order (its sample_values are the first five of
\* them, and where a record lacks the field or holds a null for it the entry
\* is that of the remaining values); the fields that only later records have
\* change nothing: the analysis (flags, patterns, suggestions, and with it
\* the chart type) is that of the records cut down to the first one's fields.
C24_FirstRecordDrivesAnalysis ==
    (Analysed /\ IsDict(frame.data[1]))
    => LET data  == frame.data
           a     == frame.analysis
           first == [i \in DOMAIN data[1].kv |-> data[1].kv[i].k]
       IN  /\ a.fields = first
           /\ DOMAIN a.field_types =
                 {f \in Range(first) : PresentValues(data, f) # <<>>}
           /\ \A f \in DOMAIN a.field_types :
                 /\ a.field_types[f].sample_values = Prefix(PresentValues(data, f), 5)
                 /\ Len(PresentValues(data, f)) < Len(data)
                      => a.field_types[f] = _analyze_field(f, PresentValues(data, f))
           /\ (\E i \in DOMAIN data : Restricted(data[i], Range(first)) # data[i])
                => a = _analyze_data_structure(
                           [i \in DOMAIN data |-> Restricted(data[i], Range(first))])

\* C24 witness: the first record has a category alone, later records add a
\* percentage and a date, and the analysis knows of the category only; and a
\* field that is null in every record has no entry
C24_Witness ==
    /\ Analysed
    /\ frame.analysis.fields = <<F_region>>
    /\ \E i \in DOMAIN frame.data : DictGet(frame.data[i], F_date) = V_ymd
    /\ \E i \in DOMAIN frame.data : DictGet(frame.data[i], F_share) = V_pct10
    /\ DOMAIN frame.analysis.field_types = {F_region}
    /\ ~frame.analysis.has_time_series /\ ~frame.analysis.has_percentages
    /\ frame.analysis.data_patterns = <<>>
    /\ args.chart_type = S_auto /\ frame.chart_type = S_bar

-----------------------------------------------------------------------------
(* Claims about the values handed to _analyze_field                        *)

\* C25: the field classifier is only ever called on a non-empty list without
\* nulls; in create_custom_dataset too a null of a record is filtered out
\* before the call, so that the data type of a field is the classification of
\* its non-null values and a null adds nothing to it.
C25_NoNullReachesClassifier ==
    (DatasetDone /\ ret.kind = "ok")
    => \A f \in DOMAIN frame.field_values :
          /\ frame.field_values[f] # <<>>
          /\ \A i \in DOMAIN frame.field_values[f] : frame.field_values[f][i] # PyNone
          /\ PresentValues(args.data_points.items, f) # <<>>
               => ret.metadata.data_types[f] =
                     _analyze_field(f, PresentValues(args.data_points.items, f)).type

-----------------------------------------------------------------------------
(* The sample generators (data_samples.py)                                 *)

\* random.sin(...): the module random has no function sin, the attribute
\* lookup raises
NoRandomSin ==
    [kind |-> "raise", exc |-> "AttributeError",
     msg  |->
        <<"m", "o", "d", "u", "l", "e", " ", "'", "r", "a", "n", "d", "o", "m", "'",
          " ", "h", "a", "s", " ", "n", "o", " ", "a", "t", "t", "r", "i", "b", "u",
          "t", "e", " ", "'", "s", "i", "n", "'">>]

\* sales_data[0], time_series_data[0] on the empty list
ListIndexOutOfRange ==
    [kind |-> "raise", exc |-> "IndexError",
     msg  |->
        <<"l", "i", "s", "t", " ", "i", "n", "d", "e", "x", " ", "o", "u", "t", " ",
          "o", "f", " ", "r", "a", "n", "g", "e">>]

\* get_sample_sales_data: the first pass of the loop over range(period_months)
\* ends at random.sin (line 33), before a record is appended; without a pass
\* sales_data stays empty and sales_data[0] (line 52) raises
get_sample_sales_data(period_months) ==
    IF period_months >= 1 THEN NoRandomSin ELSE ListIndexOutOfRange

\* get_sample_time_series_data: the first pass of the loop over range(days)
\* ends at random.sin (line 169); without a pass time_series_data[0] (line
\* 187) raises.  metric_name is a string
get_sample_time_series_data(metric_name, days) ==
    IF days >= 1 THEN NoRandomSin ELSE ListIndexOutOfRange

\* the list of lines 73-79
companies ==
    <<Rec2(F_name, PyStr(<<"C", "o", "m", "p", "a", "n", "y", " ", "A">>),
           F_share, PyFloat(Dec(352, 1))),
      Rec2(F_name, PyStr(<<"C", "o", "m", "p", "a", "n", "y", " ", "B">>),
           F_share, PyFloat(Dec(287, 1))),
      Rec2(F_name, PyStr(<<"C", "o", "m", "p", "a", "n", "y", " ", "C">>),
           F_share, PyFloat(Dec(184, 1))),
      Rec2(F_name, PyStr(<<"C", "o", "m", "p", "a", "n", "y", " ", "D">>),
           F_share, PyFloat(Dec(121, 1))),
      Rec2(F_name, PyStr(<<"O", "t", "h", "e", "r", "s">>),
           F_share, PyFloat(Dec(56, 1)))>>

\* get_sample_market_share_data at wall-clock time now.  total_share is the
\* sum of the shares, 100.0 as a float as well
get_sample_market_share_data(now) ==
    [kind             |-> "ok",
     dataset_name     |->
        <<"S", "a", "m", "p", "l", "e", " ", "M", "a", "r", "k", "e", "t", " ", "S",
          "h", "a", "r", "e", " ", "D", "a", "t", "a">>,
     description      |->
        <<"M", "a", "r", "k", "e", "t", " ", "s", "h", "a", "r", "e", " ", "d", "i",
          "s", "t", "r", "i", "b", "u", "t", "i", "o", "n", " ", "a", "m", "o", "n",
          "g", " ", "t", "o", "p", " ", "c", "o", "m", "p", "a", "n", "i", "e", "s",
          " ", "i", "n", " ", "t", "h", "e", " ", "i", "n", "d", "u", "s", "t", "r",
          "y">>,
     data             |-> PyList(companies),
     metadata         |-> [total_records |-> Len(companies),
                           total_share   |->
                               DecSum([i \in DOMAIN companies |->
                                         DictGet(companies[i], F_share).d]),
                           data_types    |-> (F_name :> "categorical")
                                                 @@ (F_share :> "numeric")],
     suggested_charts |-> <<S_pie, S_bar>>,
     timestamp        |-> Strftime(now)]

-----------------------------------------------------------------------------
(* Calls of the sample generators and the chart of a sample                *)

\* most months and days asked for
MaxMonths == 12

MaxDays == 30

MetricNames ==
    {PyStr(<<"R", "e", "v", "e", "n", "u", "e">>), PyStr(<<"U", "s", "e", "r", "s">>)}

\* the chart arguments tried on a sample: none, and the charts the sample
\* suggests, with and without its fields as axes
SampleCharts ==
    {ChartArgs(S_auto, PyNone, PyNone, PyNone, PyNone),
     ChartArgs(S_pie, PyNone, PyNone, PyNone, PyNone),
     ChartArgs(S_pie, PyStr(F_name), PyStr(F_share), PyNone, PyNone),
     ChartArgs(S_bar, PyNone, PyNone, PyNone, PyNone),
     ChartArgs(S_bar, PyStr(F_name), PyStr(F_share), PyNone, PyNone)}

InitSamples ==
    /\ pc = "call"
    /\ \/ op = "get_sample_sales_data" /\ args \in [period_months : 0..MaxMonths]
       \/ /\ op = "get_sample_time_series_data"
          /\ args \in [metric_name : MetricNames, days : 0..MaxDays]
       \/ op = "get_sample_market_share_data" /\ args = <<>>
    /\ ret = PyNone
    /\ frame = PyNone

\* get_sample_sales_data runs to its return or to the exception that leaves it
GetSampleSalesData ==
    /\ pc = "call" /\ op = "get_sample_sales_data"
    /\ ret' = get_sample_sales_data(args.period_months)
    /\ pc' = "done"
    /\ UNCHANGED <<op, args, frame>>

GetSampleTimeSeriesData ==
    /\ pc = "call" /\ op = "get_sample_time_series_data"
    /\ ret' = get_sample_time_series_data(args.metric_name, args.days)
    /\ pc' = "done"
    /\ UNCHANGED <<op, args, frame>>

GetSampleMarketShareData ==
    /\ pc = "call" /\ op = "get_sample_market_share_data"
    /\ \E now \in ClockValues : ret' = get_sample_market_share_data(now)
    /\ pc' = "sampled"
    /\ UNCHANGED <<op, args, frame>>

\* the data of the sample returned is passed to generate_chart_data, which
\* runs to its return or to the exception that leaves it; the sample is kept
\* in frame
ChartSample ==
    /\ pc = "sampled"
    /\ op' = "generate_chart_data"
    /\ \E o \in SampleCharts, now \in ClockValues :
          /\ args' = [data |-> ret.data] @@ o
          /\ \E r \in {generate_chart_data(ret.data, o.chart_type, o.x_field, o.y_field,
                                           o.title, o.description, now)} :
                /\ ret' = r.ret
                /\ frame' = [sample |-> ret] @@ r.frame
    /\ pc' = "done"

NextSamples ==
    \/ GetSampleSalesData
    \/ GetSampleTimeSeriesData
    \/ GetSampleMarketShareData
    \/ ChartSample

SpecSamples == InitSamples /\ [][NextSamples]_vars

-----------------------------------------------------------------------------
(* Claims about the sample generators                                      *)

\* C26: the data list of get_sample_market_share_data, charted with
\* chart_type "auto", has name classified categorical and share numeric with
\* the percentage flag, as the sample's metadata.data_types declares for the
\* two fields, and the chart type inferred is "pie".
C26_MarketShareIsPie ==
    (ChartDone /\ args.chart_type = S_auto /\ frame.line \in {"_generate_title", "return"})
    => LET types == frame.analysis.field_types
       IN  /\ DOMAIN types = {F_name, F_share}
           /\ types[F_name].type = "categorical"
           /\ types[F_share].type = "numeric"
           /\ types[F_share].is_percentage
           /\ \A f \in DOMAIN types : types[f].type = frame.sample.metadata.data_types[f]
           /\ frame.chart_type = S_pie

\* C27: for period_months >= 1 get_sample_sales_data returns a mapping whose
\* data list has period_months records and whose metadata.total_records is
\* period_months; for days >= 1 get_sample_time_series_data returns a mapping
\* whose data list has days records; neither call raises.
C27_SamplesOfRequestedLength ==
    /\ (pc = "done" /\ op = "get_sample_sales_data" /\ args.period_months >= 1)
         => /\ ret.kind = "ok"
            /\ Len(ret.data.items) = args.period_months
            /\ ret.metadata.total_records = args.period_months
    /\ (pc = "done" /\ op = "get_sample_time_series_data" /\ args.days >= 1)
         => /\ ret.kind = "ok"
            /\ Len(ret.data.items) = args.days


-----------------------------------------------------------------------------
(* Claims about the x axis of the charts auto-detection selects            *)

\* C28: under chart_type "auto" the type selected is one of line, bar, pie and
\* multi-bar.  Whenever it is not line, has_time_series is false and
\* suggested_x_field is null, so without an x_field override the x field the
\* call resolves, and config.x_field of the chart returned, is null.  A
\* profile with the pattern categorical_breakdown has has_percentages, so it
\* never gives bar: bar comes from has_categories alone.
C28_NonLineAutoHasNoXField ==
    (Analysed /\ args.chart_type = S_auto)
    => LET a    == frame.analysis
           pats == Range(a.data_patterns)
           ct   == frame.chart_type
       IN  /\ ct \in {S_line, S_bar, S_pie, S_multi_bar}
           /\ ct # S_line
                => /\ ~a.has_time_series
                   /\ a.suggested_x_field = PyNone
                   /\ ~Truthy(args.x_field)
                        => /\ frame.x_field = PyNone
                           /\ ret.kind = "ok" => ret.config.x_field = PyNone
           /\ "categorical_breakdown" \in pats
                => /\ a.has_percentages
                   /\ ct \in {S_line, S_pie}
           /\ ct = S_bar
                => /\ "categorical_breakdown" \notin pats
                   /\ a.has_categories

\* C28 witness: a pie chart selected for a categorical_breakdown profile and
\* returned, with a title given, with a null x field
C28_Witness ==
    /\ Analysed /\ args.chart_type = S_auto
    /\ ~Truthy(args.x_field)
    /\ "categorical_breakdown" \in Range(frame.analysis.data_patterns)
    /\ frame.chart_type = S_pie
    /\ ret.kind = "ok" /\ ret.chart_type = S_pie
    /\ ret.config.x_field = PyNone


-----------------------------------------------------------------------------
(* Claims about fields of booleans                                         *)

\* the fields of the first record all of whose values present are booleans
BooleanFields(records) ==
    {f \in {records[1].kv[i].k : i \in DOMAIN records[1].kv} :
        /\ PresentValues(records, f) # <<>>
        /\ \A v \in Range(PresentValues(records, f)) : v.t = "bool"}

\* how many of the values are True
TrueCount(values) == Cardinality({i \in DOMAIN values : values[i] = PyBool(TRUE)})

\* C29: a field whose values are all booleans is classified numeric, True
\* counted as 1.0 and False as 0.0: its range is [0.0 or 1.0, 0.0 or 1.0], the
\* least and the greatest of them, its average the share of True, neither
\* flag is set, and it is suggested_y_field when it is the first numeric field
\* of the first record; it is never classified categorical or text.
C29_BooleansAreNumbers ==
    (Analysed /\ \A i \in DOMAIN frame.data : IsDict(frame.data[i]))
    => \A f \in BooleanFields(frame.data) :
          LET a      == frame.analysis
              values == PresentValues(frame.data, f)
              k      == TrueCount(values)
              n      == Len(values)
          IN  /\ f \in DOMAIN a.field_types
              /\ a.field_types[f].type = "numeric"
              /\ a.field_types[f].range
                    = <<Dec(IF k = n THEN 1 ELSE 0, 0), Dec(IF k = 0 THEN 0 ELSE 1, 0)>>
              /\ a.field_types[f].average = <<Rat(k, n)>>
              /\ ~a.field_types[f].is_percentage
              /\ ~a.field_types[f].is_currency
              /\ (f # <<>> /\ FirstFieldOfType(a, {"numeric"}) = PyStr(f))
                    => a.suggested_y_field = PyStr(f)

\* C29 witness: a field holding True and False, classified numeric with range
\* [0.0, 1.0] and suggested for the y axis ahead of a field of integers
C29_Witness ==
    /\ Analysed /\ \A i \in DOMAIN frame.data : IsDict(frame.data[i])
    /\ F_flag \in BooleanFields(frame.data)
    /\ F_cost \in DOMAIN frame.analysis.field_types
    /\ frame.analysis.field_types[F_flag].type = "numeric"
    /\ frame.analysis.field_types[F_flag].range = <<Dec(0, 0), Dec(1, 0)>>
    /\ frame.analysis.suggested_y_field = PyStr(F_flag)


-----------------------------------------------------------------------------
(* create_custom_dataset and generate_chart_data on the same list          *)

\* most columns of the generated datasets given to both tools
MaxBothCols == 2

\* the lists given to both tools: generated datasets, the example records,
\* records with the same keys in different orders, and lists whose records
\* differ in their keys or hold a null
BothInputs ==
    {d \in Datasets : Len(d.items[1].kv) <= MaxBothCols}
    \cup ExampleData
    \cup {PyList(<<Rec2(F_region, V_Jan, F_cost, PyInt(3)),
                   Rec2(F_cost, PyInt(4), F_region, V_Jan),
                   Rec2(F_region, V_Jan, F_cost, PyInt(4))>>),
          PyList(<<Rec2(F_date, V_ymd, F_share, V_pct10),
                   Rec2(F_share, V_pct20, F_date, V_ymd)>>),
          PyList(<<Rec1(F_a, PyInt(1)), Rec1(F_a, PyNone)>>),
          PyList(<<Rec1(F_a, PyInt(1)), Rec2(F_a, PyInt(2), F_date, V_ymd)>>),
          PyList(<<PyDict(<<>>)>>),
          PyList(<<>>)}

\* the chart arguments of the second call: none, and a title
BothCharts ==
    {ChartArgs(S_auto, PyNone, PyNone, PyNone, PyNone),
     ChartArgs(S_auto, PyNone, PyNone, PyStr(S_MyTitle), PyNone)}

InitBoth ==
    /\ pc = "call"
    /\ op = "create_custom_dataset"
    /\ args \in [dataset_name : {PyStr(S_MyTitle)}, dataset_description : {PyStr(S_Note)},
                 data_points : BothInputs]
    /\ ret = PyNone
    /\ frame = PyNone

\* after create_custom_dataset the same list is passed to generate_chart_data,
\* which runs to its return or to the exception that leaves it; what
\* create_custom_dataset returned is kept in frame
ChartSameList ==
    /\ pc = "done" /\ op = "create_custom_dataset"
    /\ op' = "generate_chart_data"
    /\ \E o \in BothCharts, now \in ClockValues :
          /\ args' = [data |-> args.data_points] @@ o
          /\ \E r \in {generate_chart_data(args.data_points, o.chart_type, o.x_field,
                                           o.y_field, o.title, o.description, now)} :
                /\ ret' = r.ret
                /\ frame' = [dataset |-> ret] @@ r.frame
    /\ pc' = "done"

NextBoth ==
    \/ CreateCustomDataset
    \/ ChartSameList

SpecBoth == InitBoth /\ [][NextBoth]_vars

-----------------------------------------------------------------------------
(* Claims about the two tools on the same list                             *)

KeySet(record) == {record.kv[i].k : i \in DOMAIN record.kv}

\* a non-empty list of records that all have the same keys and hold no null
Uniform(data) ==
    /\ IsList(data) /\ data.items # <<>>
    /\ \A i \in DOMAIN data.items : IsDict(data.items[i])
    /\ \A i \in DOMAIN data.items :
          /\ KeySet(data.items[i]) = KeySet(data.items[1])
          /\ \A j \in DOMAIN data.items[i].kv : data.items[i].kv[j].v # PyNone

\* C30: for a non-empty list of records with the same key set and no null
\* value, create_custom_dataset returns a dataset and generate_chart_data
\* analyses the list, and for every field f of the records
\* metadata.data_types[f] of the dataset equals field_types[f].type of the
\* analysis, which is the data_analysis of the ChartResult when one is
\* returned.
C30_EntryPointsAgree ==
    (ChartDone /\ Uniform(args.data))
    => /\ frame.dataset.kind = "ok"
       /\ frame.line \in {"_generate_title", "return"}
       /\ DOMAIN frame.dataset.metadata.data_types = KeySet(args.data.items[1])
       /\ DOMAIN frame.analysis.field_types = KeySet(args.data.items[1])
       /\ \A f \in KeySet(args.data.items[1]) :
             /\ frame.dataset.metadata.data_types[f] = frame.analysis.field_types[f].type
             /\ ret.kind = "ok"
                  => frame.dataset.metadata.data_types[f]
                        = ret.data_analysis.field_types[f].type

\* C30 witness: three records with a category and a number, the keys in
\* different orders, for which both tools report categorical and numeric
C30_Witness ==
    /\ ChartDone /\ Uniform(args.data)
    /\ Len(args.data.items) = 3
    /\ \E i \in DOMAIN args.data.items : args.data.items[i].kv[1].k # args.data.items[1].kv[1].k
    /\ frame.dataset.metadata.data_types[F_region] = "categorical"
    /\ frame.dataset.metadata.data_types[F_cost] = "numeric"
    /\ ret.kind = "ok"
    /\ ret.data_analysis.field_types[F_region].type = "categorical"
    /\ ret.data_analysis.field_types[F_cost].type = "numeric"

=============================================================================
